---- MODULE Spec2Model ----
(***************************************************************************)
(* rss2json: the fetch-and-transform pipeline of internal/rss (Convert,    *)
(* fetchAndParse, extractItemThumbnails) and the HTTP boundary of          *)
(* internal/server (ConvertHandler, mapError).                             *)
(*                                                                         *)
(* A response body is a sequence of XML tokens, one token standing for one *)
(* unit of the byte stream: the size ceiling, the LimitedReader and the    *)
(* tee buffer count tokens.  Text values are sequences of characters, so   *)
(* that trimming is computed and is not the identity.                      *)
(***************************************************************************)
EXTENDS Integers, Sequences, FiniteSets, TLC

(* ------------------------------ bounds --------------------------------- *)
\* longest response body, in tokens
MaxBody == 8
\* thumbnail elements in a row inside one item
MaxThumbs == 2
\* nesting depth of item/entry elements
MaxDepth == 2
\* tokens following the end of the root element
MaxTail == 1
\* largest explicitly configured ceiling (RSS_MAX_BYTES)
MaxCeil == 3
\* bytes the feed parser's buffered reader may pull beyond what it needs
MaxAhead == 1

(* --------------------------- program constants -------------------------- *)
defaultMaxFeedBytes == 10485760
StatusOK == 200
StatusBadRequest == 400
StatusUnauthorized == 401
StatusNotFound == 404
StatusBadGateway == 502
StatusGatewayTimeout == 504

APIVersion == "v1"
MsgMissing == "Missing rss url."
MsgUnauthorized == "unauthorized"
MsgTimeout == "RSS fetch timeout."
MsgDownload == "Cannot download this RSS feed, make sure the Rss URL is correct."
ContentTypeJSON == "application/json; charset=utf-8"

ErrorKindInvalidInput == "InvalidInput"
ErrorKindUpstream == "Upstream"

(* ------------------------------- text ---------------------------------- *)
Min(a, b) == IF a < b THEN a ELSE b

\* unicode.IsSpace on the characters of the model
IsSpace(c) == c \in {" ", "\t"}

RECURSIVE TrimLeft(_)
TrimLeft(s) ==
  IF s = <<>> THEN <<>>
  ELSE IF IsSpace(Head(s)) THEN TrimLeft(Tail(s)) ELSE s

RECURSIVE TrimRight(_)
TrimRight(s) ==
  IF s = <<>> THEN <<>>
  ELSE IF IsSpace(s[Len(s)]) THEN TrimRight(SubSeq(s, 1, Len(s) - 1)) ELSE s

\* strings.TrimSpace
TrimSpace(s) == TrimRight(TrimLeft(s))

\* strings.ToLower on element names
ToLower(n) ==
  CASE n = "Entry" -> "entry"
    [] n = "Item" -> "item"
    [] OTHER -> n

(* ------------------------------ XML tokens ------------------------------ *)
\* an element start tag, an element end tag, a whole <thumbnail> element
\* (its url attribute and its character data), or a byte outside any element
Open(n) == [k |-> "open", name |-> n, attr |-> <<>>, text |-> <<>>]
Close(n) == [k |-> "close", name |-> n, attr |-> <<>>, text |-> <<>>]
Thumb(a, t) == [k |-> "thumb", name |-> "thumbnail", attr |-> a, text |-> t]
Ws == [k |-> "ws", name |-> "", attr |-> <<>>, text |-> <<>>]
\* text that is not well-formed XML (an undefined entity such as &nbsp;): the
\* feed parser reads over it, encoding/xml's strict decoder reports an error
Bad == [k |-> "bad", name |-> "", attr |-> <<>>, text |-> <<>>]

ItemNames == {"item", "Entry"}
Thumbs == { Thumb(<<"a", " ">>, <<>>), Thumb(<<>>, <<" ", "b">>), Thumb(<<>>, <<>>) }

\* the value a thumbnail element carries: its url attribute, else its text
ThumbValue(tok) == IF TrimSpace(tok.attr) # <<>> THEN tok.attr ELSE tok.text

\* the elements still open after the tokens of s (innermost last)
RECURSIVE OpenStack(_)
OpenStack(s) ==
  IF s = <<>> THEN <<>>
  ELSE LET st == OpenStack(SubSeq(s, 1, Len(s) - 1))
           t == s[Len(s)]
       IN  IF t.k = "open" THEN Append(st, t.name)
           ELSE IF t.k = "close" /\ st # <<>> THEN SubSeq(st, 1, Len(st) - 1)
           ELSE st

\* the root element has been closed
RootClosed(s) == s # <<>> /\ OpenStack(s) = <<>>

\* thumbnail elements in a row at the end of s
RECURSIVE ThumbRun(_)
ThumbRun(s) ==
  IF s = <<>> \/ s[Len(s)].k # "thumb" THEN 0
  ELSE 1 + ThumbRun(SubSeq(s, 1, Len(s) - 1))

\* tokens after the end of the root element
RECURSIVE TailLen(_)
TailLen(s) ==
  IF s = <<>> \/ s[Len(s)].k # "ws" THEN 0
  ELSE 1 + TailLen(SubSeq(s, 1, Len(s) - 1))

\* the tokens an upstream server can send next: the document is an RSS
\* document, or a prefix of one when the transfer stops early
NextTokens(s) ==
  IF s = <<>> THEN { Open("rss") }
  ELSE IF OpenStack(s) = <<>> THEN (IF TailLen(s) < MaxTail THEN { Ws } ELSE {})
  ELSE LET st == OpenStack(s)
           top == st[Len(st)]
       IN  { Close(top) }
           \cup (IF Len(st) = 1 THEN { Open(n) : n \in ItemNames } ELSE {})
           \cup (IF Len(st) > 1 /\ Len(st) <= MaxDepth THEN { Open("item") } ELSE {})
           \cup (IF Len(st) > 1 /\ ThumbRun(s) < MaxThumbs THEN Thumbs ELSE {})

(* --------------------------- thumbnail scanner -------------------------- *)
\* attrURL: the trimmed value of the url attribute, empty when there is none
attrURL(tok) == TrimSpace(tok.attr)

\* the scanner's variables before the first token
ScanInit == [inItem |-> FALSE, current |-> <<>>, thumbnails |-> <<>>]

IsItemName(n) == ToLower(n) \in {"item", "entry"}

\* ScanTok with the test of current left out: the last thumbnail wins
ScanTokLastWins(s, tok) ==
  CASE tok.k = "open" ->
         IF IsItemName(tok.name)
         THEN [s EXCEPT !.inItem = TRUE, !.current = <<>>]
         ELSE s
    [] tok.k = "thumb" ->
         IF ~s.inItem \/ ToLower(tok.name) # "thumbnail" THEN s
         ELSE IF attrURL(tok) # <<>> THEN [s EXCEPT !.current = attrURL(tok)]
         ELSE [s EXCEPT !.current = TrimSpace(tok.text)]
    [] tok.k = "close" ->
         IF IsItemName(tok.name)
         THEN [s EXCEPT !.inItem = FALSE,
                        !.thumbnails = IF s.inItem
                                       THEN Append(s.thumbnails, TrimSpace(s.current))
                                       ELSE s.thumbnails]
         ELSE s
    [] OTHER -> s

\* ScanTok appending every thumbnail as it is met, besides the one per item
ScanTokPerThumb(s, tok) ==
  CASE tok.k = "open" ->
         IF IsItemName(tok.name)
         THEN [s EXCEPT !.inItem = TRUE, !.current = <<>>]
         ELSE s
    [] tok.k = "thumb" ->
         IF ~s.inItem \/ ToLower(tok.name) # "thumbnail" THEN s
         ELSE IF s.current # <<>> THEN s
         ELSE IF attrURL(tok) # <<>>
         THEN [s EXCEPT !.current = attrURL(tok),
                        !.thumbnails = Append(s.thumbnails, attrURL(tok))]
         ELSE [s EXCEPT !.current = TrimSpace(tok.text),
                        !.thumbnails = Append(s.thumbnails, TrimSpace(tok.text))]
    [] tok.k = "close" ->
         IF IsItemName(tok.name)
         THEN [s EXCEPT !.inItem = FALSE,
                        !.thumbnails = IF s.inItem
                                       THEN Append(s.thumbnails, TrimSpace(s.current))
                                       ELSE s.thumbnails]
         ELSE s
    [] OTHER -> s

\* ScanTok appending at every item or entry end tag, inItem set or not
ScanTokEveryClose(s, tok) ==
  CASE tok.k = "open" ->
         IF IsItemName(tok.name)
         THEN [s EXCEPT !.inItem = TRUE, !.current = <<>>]
         ELSE s
    [] tok.k = "thumb" ->
         IF ~s.inItem \/ ToLower(tok.name) # "thumbnail" THEN s
         ELSE IF s.current # <<>> THEN s
         ELSE IF attrURL(tok) # <<>> THEN [s EXCEPT !.current = attrURL(tok)]
         ELSE [s EXCEPT !.current = TrimSpace(tok.text)]
    [] tok.k = "close" ->
         IF IsItemName(tok.name)
         THEN [s EXCEPT !.inItem = FALSE,
                        !.thumbnails = Append(s.thumbnails, TrimSpace(s.current))]
         ELSE s
    [] OTHER -> s

\* one iteration of the token loop of extractItemThumbnails
ScanTok(s, tok) ==
  CASE tok.k = "open" ->
         IF IsItemName(tok.name)
         THEN [s EXCEPT !.inItem = TRUE, !.current = <<>>]
         ELSE s
    [] tok.k = "thumb" ->
         IF ~s.inItem \/ ToLower(tok.name) # "thumbnail" THEN s
         ELSE IF s.current # <<>> THEN s
         ELSE IF attrURL(tok) # <<>> THEN [s EXCEPT !.current = attrURL(tok)]
         ELSE [s EXCEPT !.current = TrimSpace(tok.text)]
    [] tok.k = "close" ->
         IF IsItemName(tok.name)
         THEN [s EXCEPT !.inItem = FALSE,
                        !.thumbnails = IF s.inItem
                                       THEN Append(s.thumbnails, TrimSpace(s.current))
                                       ELSE s.thumbnails]
         ELSE s
    [] OTHER -> s

\* the scanner's variables after n iterations of the token loop over b
RECURSIVE ScanRun(_, _)
ScanRun(b, n) ==
  IF n = 0 THEN ScanInit ELSE ScanTok(ScanRun(b, n - 1), b[n])

\* the tokens decoder.Token() returns before its first error that is not io.EOF
RECURSIVE TokensBeforeError(_)
TokensBeforeError(b) ==
  IF b = <<>> \/ Head(b).k = "bad" THEN 0 ELSE 1 + TokensBeforeError(Tail(b))

\* the scanner's variables after the first n tokens of b, the loop having
\* ended at the first error
ScanState(b, n) == ScanRun(b, Min(n, TokensBeforeError(b)))

\* extractItemThumbnails going on to the next token after a syntax error
extractItemThumbnailsSkipError(b) == ScanRun(b, Len(b)).thumbnails

\* extractItemThumbnails: the end of the input, clean or in the middle of an
\* element, and any other error of the decoder end the loop with what was
\* collected
extractItemThumbnails(b) == ScanState(b, Len(b)).thumbnails

(* ------------------------------ feed parser ----------------------------- *)
\* gofeed's Parser.Parse on the tokens it can read: it detects the feed type
\* from the root element, collects the item elements that are children of the
\* channel, skips every other element with its content, and stops at the end
\* tag of the root.  need is the number of tokens it had to read; an entry is
\* recorded as the position of its start tag.
RECURSIVE ParseFrom(_, _, _, _)
ParseFrom(st, i, depth, items) ==
  IF i > Len(st) THEN [ok |-> FALSE, items |-> <<>>, need |-> Len(st)]
  ELSE LET t == st[i] IN
       CASE t.k = "open" ->
              ParseFrom(st, i + 1, depth + 1,
                        IF depth = 1 /\ ToLower(t.name) = "item"
                        THEN Append(items, i) ELSE items)
         [] t.k = "close" ->
              IF depth = 1 THEN [ok |-> TRUE, items |-> items, need |-> i]
              ELSE ParseFrom(st, i + 1, depth - 1, items)
         [] OTHER -> ParseFrom(st, i + 1, depth, items)

FeedParse(st) ==
  IF st = <<>> \/ st[1].k # "open" \/ ToLower(st[1].name) # "rss"
  THEN [ok |-> FALSE, items |-> <<>>, need |-> Min(Len(st), 1)]
  ELSE ParseFrom(st, 2, 1, <<>>)

(* ----------------------------- configuration ---------------------------- *)
\* the values RSS_MAX_BYTES can hold: unset, not a number, or a number
RawSettings ==
  { [k |-> "unset", v |-> 0], [k |-> "text", v |-> 0] }
  \cup { [k |-> "num", v |-> n] : n \in -1 .. MaxCeil }

\* the width of int64, scaled down: the signed word of the model has WordBits
\* bits, enough to hold defaultMaxFeedBytes
WordBits == 25
MaxInt == 2 ^ (WordBits - 1) - 1
MinInt == 0 - 2 ^ (WordBits - 1)

\* signed arithmetic of that width wraps around
Wrap(x) == ((x - MinInt) % 2 ^ WordBits) + MinInt

\* the numbers RSS_MAX_BYTES can also hold: the default, the largest value
\* of the word, and one that strconv.ParseInt refuses as out of range
WideSettings ==
  RawSettings \cup { [k |-> "num", v |-> n] : n \in { defaultMaxFeedBytes, MaxInt, MaxInt + 1 } }

\* maxFeedBytes: the default for an empty setting, for one ParseInt refuses
\* (not a number, or out of the range of the word) and for val <= 0
maxFeedBytes(raw) ==
  IF raw.k = "unset" THEN defaultMaxFeedBytes
  ELSE IF raw.k # "num" \/ raw.v > MaxInt \/ raw.v < MinInt \/ raw.v <= 0
  THEN defaultMaxFeedBytes
  ELSE raw.v

\* the LimitedReader's budget, maxBytes + 1 in the signed word
limitN(maxBytes) == Wrap(maxBytes + 1)

\* io.LimitedReader.Read: with N <= 0 it returns io.EOF at once
readable(b, limit) == IF limit <= 0 THEN 0 ELSE Min(Len(b), limit)

(* -------------------------------- errors -------------------------------- *)
NoErr == [kind |-> "none", cause |-> "none", timeout |-> FALSE, code |-> 0]

newInvalidInputErr(cause) ==
  [kind |-> ErrorKindInvalidInput, cause |-> cause, timeout |-> FALSE, code |-> 0]

\* newUpstreamErr building the other kind
newUpstreamErrWrongKind(cause, timeout, code) ==
  [kind |-> ErrorKindInvalidInput, cause |-> cause, timeout |-> timeout, code |-> code]

\* timeout: the wrapped cause is a deadline or a net error reporting Timeout;
\* code: the number formatted into the error text
newUpstreamErr(cause, timeout, code) ==
  [kind |-> ErrorKindUpstream, cause |-> cause, timeout |-> timeout, code |-> code]

IsInvalidInput(e) == e.kind = ErrorKindInvalidInput

(* ------------------------------- requests ------------------------------- *)
\* request URLs: empty, blanks, a control character, an ordinary character
Urls == { <<>>, <<" ">>, <<"\t">>, <<"h">> }

\* url.Parse as http.NewRequestWithContext applies it: a control character is
\* rejected, any other text (a blank included) yields a request
IsCTL(c) == c = "\t"
RequestBuilds(u) == \A i \in 1 .. Len(u) : ~IsCTL(u[i])

\* what url holds once the request has left: the urls that built a request
\* continue as one
SentUrl == <<"*">>

\* http.MethodGet, the method of the request fetchAndParse builds
MethodGet == "GET"

\* status codes a server can answer with
Statuses == {199, 200, 299, 300}

\* non2xx with the upper boundary off by one
non2xxOff(status) == status < 200 \/ status > 300

\* fetchAndParse's test of resp.StatusCode
non2xx(status) == status < 200 \/ status >= 300

(* -------------------------------- state -------------------------------- *)
VARIABLES
  pc,          \* where the request being served stands
  url,         \* Convert's url argument, until the request has left
  body,        \* the document the upstream server serves as response body
  resp,        \* resp.StatusCode once the client returned a response, else 0
  maxBytes,    \* fetchAndParse: the ceiling read from the environment
  limitedN,    \* fetchAndParse: limited.N, the bytes the reader may still hand out
  buf,         \* fetchAndParse: the tee buffer, every byte the parser read
  perr,        \* fetchAndParse: parser.Parse returned an error
  feed,        \* the parsed feed
  thumbnails,  \* the scanned thumbnails
  err,         \* the error a call returned
  result,      \* the model.Response returned by Convert
  http,        \* the response written by ConvertHandler
  scan,        \* extractItemThumbnails: inItem, current, thumbnails
  pos,         \* extractItemThumbnails: tokens consumed by the decoder
  log,         \* the failures answered so far: kind, timeout, cause, message
  sent,        \* the requests handed to defaultHTTPClient.Do by this call
  hcfg,        \* RSS_HEADERS: the configured entries, in order
  hmap,        \* customHeadersFromEnv: the map it returns
  hleft,       \* applyCustomHeaders: the keys the range loop has not visited
  header,      \* req.Header: canonical name -> value
  runs,        \* the conversions finished so far: headers sent and result
  target,      \* dialSocks5: targetAddr
  proxy,       \* what the SOCKS5 proxy answers and when it stops
  rd,          \* bytes of the proxy's stream read from conn so far
  skip,        \* dialSocks5: the length of the bound address still to discard
  written,     \* the messages written to conn, in order
  conn,        \* the connection to the proxy: none, open, closed
  derr,        \* the error dialSocks5 returned
  expired,     \* the caller's context is past its deadline or cancelled
  penv,        \* RSS_PROXY as the process found it
  client,      \* defaultHTTPClient: the transport's Proxy and DialContext
  dials,       \* the connections the transport opened: how and where to
  apiKey,      \* Options.APIKey
  inreq,       \* the inbound request: path and Authorization header
  routed,      \* the handler the mux gave the request to
  calls,       \* the Convert calls running side by side, each with its locals
  respBody     \* resp.Body of the fetch: none, open, closed

hdrVars == << hcfg, hmap, hleft, header, runs >>
sockVars == << target, proxy, rd, skip, written, conn, derr, expired >>
proxyVars == << penv, client, dials >>
srvVars == << apiKey, inreq, routed >>
parVars == << calls >>
extVars == << proxyVars, srvVars, parVars, respBody >>

vars == << pc, url, body, resp, maxBytes, limitedN, buf, perr, feed, thumbnails,
           err, result, http, scan, pos, log, sent, hdrVars, sockVars, extVars >>

NoFeed == [set |-> FALSE, items |-> <<>>]
\* the zero model.Response
EmptyResponse ==
  [status |-> "", version |-> "", feed |-> FALSE, items |-> <<>>, message |-> ""]
NoHttp == [code |-> 0, ctype |-> "", payload |-> EmptyResponse]
\* a nil map, an empty http.Header
NoMap == [k \in {} |-> ""]
NoTarget == [kind |-> "none", len |-> 0, port |-> 0]
NoProxy == [stream |-> <<>>, closes |-> FALSE, replyEnd |-> 0]

\* no request is being built
HdrIdle ==
  /\ hcfg = <<>>
  /\ hmap = NoMap
  /\ hleft = {}
  /\ header = NoMap
  /\ runs = <<>>

NoSetting == [k |-> "unset", scheme |-> "", host |-> "", port |-> ""]
NoClient == [proxy |-> "", purl |-> NoSetting, dial |-> "", addr |-> << "", "" >>]

NoReq == [path |-> "", auth |-> <<>>]

\* the client is not being built
ProxyIdle ==
  /\ penv = NoSetting
  /\ client = NoClient
  /\ dials = <<>>

\* no handler chain is serving
SrvIdle ==
  /\ apiKey = <<>>
  /\ inreq = NoReq
  /\ routed = "none"

\* no calls run side by side
ParIdle == calls = <<>>

ExtIdle == ProxyIdle /\ SrvIdle /\ ParIdle /\ respBody = "none"

\* no dial is under way
SockIdle ==
  /\ target = NoTarget
  /\ proxy = NoProxy
  /\ rd = 0
  /\ skip = 0
  /\ written = <<>>
  /\ conn = "none"
  /\ derr = "none"
  /\ expired = FALSE

Init ==
  /\ pc = "idle"
  /\ url = <<>>
  /\ body = <<>>
  /\ resp = 0
  /\ maxBytes = 0
  /\ limitedN = 0
  /\ buf = <<>>
  /\ perr = FALSE
  /\ feed = NoFeed
  /\ thumbnails = <<>>
  /\ err = NoErr
  /\ result = EmptyResponse
  /\ http = NoHttp
  /\ scan = ScanInit
  /\ pos = 0
  /\ log = {}
  /\ sent = <<>>
  /\ HdrIdle
  /\ SockIdle
  /\ ExtIdle

(* ------------------------------- Convert -------------------------------- *)
\* ConvertHandler reads the url query parameter and calls Convert
Request(u) ==
  /\ pc = "idle"
  /\ url' = u
  /\ pc' = "convert"
  /\ UNCHANGED << body, resp, maxBytes, limitedN, buf, perr, feed, thumbnails,
                  err, result, http, scan, pos, log >>
  /\ UNCHANGED << sent, hdrVars, sockVars, extVars >>

\* Convert: the empty url is refused, any other is fetched
ConvertEnter ==
  /\ pc = "convert"
  /\ IF url = <<>>
     THEN /\ err' = newInvalidInputErr("missing url")
          /\ result' = EmptyResponse
          /\ pc' = "converted"
     ELSE /\ pc' = "newreq"
          /\ UNCHANGED << err, result >>
  /\ UNCHANGED << url, body, resp, maxBytes, limitedN, buf, perr, feed,
                  thumbnails, http, scan, pos, log >>
  /\ UNCHANGED << sent, hdrVars, sockVars, extVars >>

\* fetchAndParse: http.NewRequestWithContext
NewRequest ==
  /\ pc = "newreq"
  /\ IF RequestBuilds(url)
     THEN /\ pc' = "do"
          /\ UNCHANGED err
     ELSE /\ err' = newInvalidInputErr("new request")
          /\ pc' = "fetched"
  /\ UNCHANGED << url, body, resp, maxBytes, limitedN, buf, perr, feed,
                  thumbnails, result, http, scan, pos, log >>
  /\ UNCHANGED << sent, hdrVars, sockVars, extVars >>

\* DoError trying the request a second time after the first failure
DoErrorRetry(timeout) ==
  /\ pc = "do"
  /\ IF Len(sent) = 0
     THEN /\ pc' = "do"
          /\ UNCHANGED err
     ELSE /\ err' = newUpstreamErr("download", timeout, 0)
          /\ pc' = "fetched"
  /\ sent' = Append(sent, MethodGet)
  /\ UNCHANGED << url, body, resp, maxBytes, limitedN, buf, perr, feed,
                  thumbnails, result, http, scan, pos, log, hdrVars, sockVars, extVars >>

\* defaultHTTPClient.Do fails: a network error or a timeout
DoError(timeout) ==
  /\ pc = "do"
  /\ err' = newUpstreamErr("download", timeout, 0)
  /\ pc' = "fetched"
  /\ UNCHANGED << url, body, resp, maxBytes, limitedN, buf, perr, feed,
                  thumbnails, result, http, scan, pos, log >>
  /\ sent' = Append(sent, MethodGet)
  /\ UNCHANGED << hdrVars, sockVars, extVars >>

\* defaultHTTPClient.Do reaches a server; the url is not read again
DoSend ==
  /\ pc = "do"
  /\ pc' = "upstream"
  /\ url' = SentUrl
  /\ UNCHANGED << body, resp, maxBytes, limitedN, buf, perr, feed,
                  thumbnails, err, result, http, scan, pos, log >>
  /\ sent' = Append(sent, MethodGet)
  /\ UNCHANGED << hdrVars, sockVars, extVars >>

\* the server puts one more token into the body it serves
Emit(tok) ==
  /\ pc \in {"upstream", "input"}
  /\ Len(body) < MaxBody
  /\ tok \in NextTokens(body)
  /\ body' = Append(body, tok)
  /\ UNCHANGED << pc, url, resp, maxBytes, limitedN, buf, perr, feed,
                  thumbnails, err, result, http, scan, pos, log >>
  /\ UNCHANGED << sent, hdrVars, sockVars, extVars >>

\* defaultHTTPClient.Do returns the response
DoResponse(status) ==
  /\ pc = "upstream"
  /\ resp' = status
  /\ pc' = "status"
  /\ UNCHANGED << url, body, maxBytes, limitedN, buf, perr, feed, thumbnails,
                  err, result, http, scan, pos, log >>
  /\ UNCHANGED << sent, hdrVars, sockVars, proxyVars, srvVars, parVars >>
  /\ respBody' = "open"

\* fetchAndParse: a status outside 2xx ends the call
StatusCheck ==
  /\ pc = "status"
  /\ IF non2xx(resp)
     THEN /\ err' = newUpstreamErr("status", FALSE, resp)
          /\ resp' = 0
          /\ pc' = "fetched"
     ELSE /\ pc' = "read"
          /\ UNCHANGED << err, resp >>
  /\ UNCHANGED << url, body, maxBytes, limitedN, buf, perr, feed, thumbnails,
                  result, http, scan, pos, log >>
  /\ UNCHANGED << sent, hdrVars, sockVars, proxyVars, srvVars, parVars >>
  /\ respBody' = IF non2xx(resp) THEN "closed" ELSE respBody

\* a tee that starts duplicating after the first byte has gone by
teeLate(b, n) == SubSeq(b, 2, n)

\* io.TeeReader: what the buffer holds once n bytes of b were read through it
tee(b, n) == SubSeq(b, 1, n)

\* fetchAndParse: the parser reads the body through the LimitedReader and the
\* tee; its buffered reader pulls n bytes, what it needs and some more
ReadParse(raw, n) ==
  /\ pc = "read"
  /\ LET max == maxFeedBytes(raw)
         avail == IF max > 0 THEN readable(body, limitN(max)) ELSE Len(body)
         p == FeedParse(SubSeq(body, 1, avail))
     IN  /\ n \in p.need .. Min(avail, p.need + MaxAhead)
         /\ maxBytes' = max
         /\ limitedN' = IF max > 0 THEN limitN(max) - n ELSE 0
         /\ buf' = tee(body, n)
         /\ perr' = ~p.ok
         /\ feed' = IF p.ok THEN [set |-> TRUE, items |-> p.items] ELSE NoFeed
  /\ pc' = "parsed"
  /\ UNCHANGED << url, body, resp, thumbnails, err, result, http, scan, pos, log >>
  /\ UNCHANGED << sent, hdrVars, sockVars, extVars >>

\* fetchAndParse: the size check, then the thumbnail scan of the buffer
FetchReturn ==
  /\ pc = "parsed"
  /\ LET tooLarge == maxBytes > 0 /\ limitedN = 0
     IN  IF perr
         THEN /\ err' = IF tooLarge
                        THEN newUpstreamErr("size limit", FALSE, maxBytes)
                        ELSE newUpstreamErr("parse", FALSE, 0)
              /\ feed' = NoFeed
              /\ UNCHANGED thumbnails
         ELSE IF tooLarge
         THEN /\ err' = newUpstreamErr("size limit", FALSE, maxBytes)
              /\ feed' = NoFeed
              /\ UNCHANGED thumbnails
         ELSE /\ thumbnails' = extractItemThumbnails(buf)
              /\ UNCHANGED << err, feed >>
  /\ resp' = 0
  /\ maxBytes' = 0
  /\ limitedN' = 0
  /\ buf' = <<>>
  /\ perr' = FALSE
  /\ pc' = "fetched"
  /\ UNCHANGED << url, body, result, http, scan, pos, log >>
  /\ UNCHANGED << sent, hdrVars, sockVars, proxyVars, srvVars, parVars >>
  /\ respBody' = "closed"

\* BuildItems with the bound of the pairing off by one
BuildItemsOffByOne(items, thumbs) ==
  [i \in 1 .. Len(items) |->
     [entry |-> items[i],
      thumbnail |-> IF i < Len(thumbs) THEN thumbs[i] ELSE <<>>]]

\* BuildItems giving the last scanned thumbnail to the entries beyond the
\* scanned count
BuildItemsPadLast(items, thumbs) ==
  [i \in 1 .. Len(items) |->
     [entry |-> items[i],
      thumbnail |-> IF i <= Len(thumbs) THEN thumbs[i]
                    ELSE IF thumbs # <<>> THEN thumbs[Len(thumbs)] ELSE <<>>]]

\* Convert: the entries with their thumbnails, paired by position
BuildItems(items, thumbs) ==
  [i \in 1 .. Len(items) |->
     [entry |-> items[i],
      thumbnail |-> IF i <= Len(thumbs) THEN thumbs[i] ELSE <<>>]]

\* ConvertResult returning a filled response next to the error
ConvertResultPartial(e, f, th) ==
  [status |-> "ok", version |-> APIVersion, feed |-> f.set,
   items |-> BuildItems(f.items, th), message |-> ""]

\* Convert's return value after fetchAndParse returned e, f, th
ConvertResult(e, f, th) ==
  IF e # NoErr THEN EmptyResponse
  ELSE [status |-> "ok", version |-> APIVersion, feed |-> f.set,
        items |-> BuildItems(f.items, th), message |-> ""]

\* Convert after fetchAndParse returned
ConvertReturn ==
  /\ pc = "fetched"
  /\ result' = ConvertResult(err, feed, thumbnails)
  /\ pc' = "converted"
  /\ UNCHANGED << url, body, resp, maxBytes, limitedN, buf, perr, feed,
                  thumbnails, err, http, scan, pos, log >>
  /\ UNCHANGED << sent, hdrVars, sockVars, extVars >>

(* ---------------------------- ConvertHandler ---------------------------- *)
isTimeout(e) == e.timeout

\* mapError answering every error alike, as a bad request
mapErrorBadRequest(e) == [code |-> StatusBadRequest, message |-> MsgDownload]

\* mapError putting the cause of an upstream failure into the message
mapErrorCause(e) ==
  IF IsInvalidInput(e) THEN [code |-> StatusBadRequest, message |-> MsgMissing]
  ELSE IF isTimeout(e) THEN [code |-> StatusGatewayTimeout, message |-> MsgTimeout]
  ELSE [code |-> StatusBadGateway, message |-> e.cause]

mapError(e) ==
  IF IsInvalidInput(e) THEN [code |-> StatusBadRequest, message |-> MsgMissing]
  ELSE IF isTimeout(e) THEN [code |-> StatusGatewayTimeout, message |-> MsgTimeout]
  ELSE [code |-> StatusBadGateway, message |-> MsgDownload]

\* writeJSON leaving the Content-Type to net/http's sniffing
writeJSONSniffed(code, payload) ==
  [code |-> code, ctype |-> "text/plain; charset=utf-8", payload |-> payload]

writeJSON(code, payload) ==
  [code |-> code, ctype |-> ContentTypeJSON, payload |-> payload]

\* ConvertHandler after Convert returned
Respond ==
  /\ pc = "converted"
  /\ IF err # NoErr
     THEN LET m == mapError(err)
          IN  /\ http' = writeJSON(m.code,
                           [status |-> "error", version |-> APIVersion, feed |-> FALSE,
                            items |-> <<>>, message |-> m.message])
              /\ log' = log \cup { [kind |-> err.kind, timeout |-> err.timeout,
                                    cause |-> err.cause, message |-> m.message] }
     ELSE /\ http' = writeJSON(StatusOK, result)
          /\ UNCHANGED log
  /\ pc' = "responded"
  /\ UNCHANGED << url, body, resp, maxBytes, limitedN, buf, perr, feed,
                  thumbnails, err, result, scan, pos >>
  /\ UNCHANGED << sent, hdrVars, sockVars, extVars >>

Tokens ==
  Thumbs \cup {Ws} \cup { Open(n) : n \in ItemNames \cup {"rss"} }
         \cup { Close(n) : n \in ItemNames \cup {"rss"} }

Next ==
  \/ \E u \in Urls : Request(u)
  \/ ConvertEnter
  \/ NewRequest
  \/ \E t \in BOOLEAN : DoError(t)
  \/ DoSend
  \/ \E tok \in Tokens : Emit(tok)
  \/ \E s \in Statuses : DoResponse(s)
  \/ StatusCheck
  \/ \E raw \in RawSettings, n \in 0 .. MaxBody : ReadParse(raw, n)
  \/ FetchReturn
  \/ ConvertReturn
  \/ Respond

Spec == Init /\ [][Next]_vars

(* ----------------- the scanner alone, one token at a time ---------------- *)
InitScan ==
  /\ pc = "input"
  /\ url = <<>>
  /\ body = <<>>
  /\ resp = 0
  /\ maxBytes = 0
  /\ limitedN = 0
  /\ buf = <<>>
  /\ perr = FALSE
  /\ feed = NoFeed
  /\ thumbnails = <<>>
  /\ err = NoErr
  /\ result = EmptyResponse
  /\ http = NoHttp
  /\ scan = ScanInit
  /\ pos = 0
  /\ log = {}
  /\ sent = <<>>
  /\ HdrIdle
  /\ SockIdle
  /\ ExtIdle

\* extractItemThumbnails is called on body: an empty input returns at once
ScanBegin ==
  /\ pc = "input"
  /\ pc' = IF Len(body) = 0 THEN "scanned" ELSE "scan"
  /\ scan' = ScanInit
  /\ pos' = 0
  /\ UNCHANGED << url, body, resp, maxBytes, limitedN, buf, perr, feed,
                  thumbnails, err, result, http, log >>
  /\ UNCHANGED << sent, hdrVars, sockVars, extVars >>

\* decoder.Token() returns the next token and the switch handles it
ScanStep ==
  /\ pc = "scan"
  /\ pos < Len(body)
  /\ body[pos + 1].k # "bad"
  /\ scan' = ScanTok(scan, body[pos + 1])
  /\ pos' = pos + 1
  /\ UNCHANGED << pc, url, body, resp, maxBytes, limitedN, buf, perr, feed,
                  thumbnails, err, result, http, log >>
  /\ UNCHANGED << sent, hdrVars, sockVars, extVars >>

\* decoder.Token() returns an error: io.EOF or a syntax error
ScanEnd ==
  /\ pc = "scan"
  /\ IF pos < Len(body) THEN body[pos + 1].k = "bad" ELSE TRUE
  /\ thumbnails' = scan.thumbnails
  /\ pc' = "scanned"
  /\ UNCHANGED << url, body, resp, maxBytes, limitedN, buf, perr, feed,
                  err, result, http, scan, pos, log >>
  /\ UNCHANGED << sent, hdrVars, sockVars, extVars >>

\* the input has a thumbnail element as a child of the root, outside any item
EmitOutside(tok) ==
  /\ pc = "input"
  /\ Len(body) < MaxBody
  /\ Len(OpenStack(body)) = 1
  /\ ThumbRun(body) < MaxThumbs
  /\ tok \in Thumbs
  /\ body' = Append(body, tok)
  /\ UNCHANGED << pc, url, resp, maxBytes, limitedN, buf, perr, feed,
                  thumbnails, err, result, http, scan, pos, log >>
  /\ UNCHANGED << sent, hdrVars, sockVars, extVars >>

NextScan ==
  \/ \E tok \in Tokens : Emit(tok)
  \/ \E tok \in Thumbs : EmitOutside(tok)
  \/ ScanBegin
  \/ ScanStep
  \/ ScanEnd

SpecScan == InitScan /\ [][NextScan]_vars

(* ------------------- the server, one request after another --------------- *)
\* longest body served when requests follow one another
ShortBody == 2

EmitShort(tok) == Len(body) < ShortBody /\ Emit(tok)

\* the handler has returned and the next request arrives
Again ==
  /\ pc = "responded"
  /\ pc' = "idle"
  /\ url' = <<>>
  /\ body' = <<>>
  /\ feed' = NoFeed
  /\ thumbnails' = <<>>
  /\ err' = NoErr
  /\ result' = EmptyResponse
  /\ http' = NoHttp
  /\ UNCHANGED << resp, maxBytes, limitedN, buf, perr, scan, pos, log >>
  /\ sent' = <<>>
  /\ UNCHANGED << hdrVars, sockVars, proxyVars, srvVars, parVars >>
  /\ respBody' = "none"

NextLoop ==
  \/ \E u \in Urls : Request(u)
  \/ ConvertEnter
  \/ NewRequest
  \/ \E t \in BOOLEAN : DoError(t)
  \/ DoSend
  \/ \E tok \in Tokens : EmitShort(tok)
  \/ \E s \in Statuses : DoResponse(s)
  \/ StatusCheck
  \/ \E raw \in RawSettings, n \in 0 .. MaxBody : ReadParse(raw, n)
  \/ FetchReturn
  \/ ConvertReturn
  \/ Respond
  \/ Again

SpecLoop == Init /\ [][NextLoop]_vars

(* --------------- Convert once fetchAndParse has returned a feed ---------- *)
\* most entries of a parsed feed
MaxEntries == 3
\* most thumbnails the scanner returned for it
MaxScanned == 3

\* the thumbnail strings the scanner can return
ThumbStrings == { <<>>, <<"a">>, <<"b">> }

\* the sequences over S of length at most n
SeqsUpTo(S, n) == UNION { [1 .. k -> S] : k \in 0 .. n }

\* fetchAndParse returned without error: the parser found n entries, the
\* scanner any number of thumbnails (it stops early where its strict decoder
\* rejects what the feed parser tolerates, and counts elements the parser skips)
InitPaired ==
  /\ pc = "fetched"
  /\ url = SentUrl
  /\ body = <<>>
  /\ resp = 0
  /\ maxBytes = 0
  /\ limitedN = 0
  /\ buf = <<>>
  /\ perr = FALSE
  /\ \E n \in 0 .. MaxEntries :
       feed = [set |-> TRUE, items |-> [j \in 1 .. n |-> 2 * j]]
  /\ thumbnails \in SeqsUpTo(ThumbStrings, MaxScanned)
  /\ err = NoErr
  /\ result = EmptyResponse
  /\ http = NoHttp
  /\ scan = ScanInit
  /\ pos = 0
  /\ log = {}
  /\ sent = << MethodGet >>
  /\ HdrIdle
  /\ SockIdle
  /\ ProxyIdle
  /\ SrvIdle
  /\ ParIdle
  /\ respBody = "closed"

NextPaired ==
  \/ ConvertReturn
  \/ Respond

SpecPaired == InitPaired /\ [][NextPaired]_vars

(* ------------------- the headers of the outbound request ----------------- *)
\* most entries of RSS_HEADERS
MaxHeaders == 3
\* conversions made with one configuration
MaxRuns == 2

\* the value fetchAndParse gives User-Agent before the configured headers
DefaultUserAgent == "Mozilla/5.0"

HeaderKeys == { "User-Agent", "user-agent", "X-Test" }
HeaderValues == { "1", "2" }

\* one comma-separated part of RSS_HEADERS after trimming: key=value, with a
\* key that may be empty, or a part without "="
HeaderEntries ==
  { [key |-> k, val |-> v, eq |-> TRUE] : k \in HeaderKeys \cup {""}, v \in HeaderValues }
  \cup { [key |-> "User-Agent", val |-> "", eq |-> FALSE] }

\* textproto.CanonicalMIMEHeaderKey, which http.Header.Set applies to the name
CanonicalKey(k) == IF k = "user-agent" THEN "User-Agent" ELSE k

\* m[k] = v on a Go map
MapPut(m, k, v) == [x \in DOMAIN m \cup {k} |-> IF x = k THEN v ELSE m[x]]

\* customHeadersFromEnv after the first n parts: a part without "=" or with
\* an empty key is skipped, a key met again replaces its value
RECURSIVE HeadersOfParts(_, _)
HeadersOfParts(cfg, n) ==
  IF n = 0 THEN NoMap
  ELSE LET m == HeadersOfParts(cfg, n - 1)
           part == cfg[n]
       IN  IF ~part.eq \/ part.key = "" THEN m ELSE MapPut(m, part.key, part.val)

customHeadersFromEnv(cfg) == HeadersOfParts(cfg, Len(cfg))

\* the documents the upstream server answers with
Docs ==
  { << Open("rss"), Close("rss") >>,
    << Open("rss"), Open("item"), Thumb(<<"a", " ">>, <<>>), Close("item"), Close("rss") >> }

InitHeaders ==
  /\ pc = "build"
  /\ url = <<"h">>
  /\ body \in Docs
  /\ resp = 0
  /\ maxBytes = 0
  /\ limitedN = 0
  /\ buf = <<>>
  /\ perr = FALSE
  /\ feed = NoFeed
  /\ thumbnails = <<>>
  /\ err = NoErr
  /\ result = EmptyResponse
  /\ http = NoHttp
  /\ scan = ScanInit
  /\ pos = 0
  /\ log = {}
  /\ sent = <<>>
  /\ hcfg \in SeqsUpTo(HeaderEntries, MaxHeaders)
  /\ hmap = NoMap
  /\ hleft = {}
  /\ header = NoMap
  /\ runs = <<>>
  /\ SockIdle
  /\ ExtIdle

\* fetchAndParse builds the request and sets the default User-Agent;
\* applyCustomHeaders reads the configured headers
BuildRequest ==
  /\ pc = "build"
  /\ header' = MapPut(NoMap, "User-Agent", DefaultUserAgent)
  /\ hmap' = customHeadersFromEnv(hcfg)
  /\ hleft' = DOMAIN hmap'
  /\ pc' = "range"
  /\ UNCHANGED << url, body, resp, maxBytes, limitedN, buf, perr, feed, thumbnails,
                  err, result, http, scan, pos, log, sent, hcfg, runs, sockVars, extVars >>

\* applyCustomHeaders: one iteration of the range over the map, which visits
\* the keys in an order the runtime chooses
RangeStep(k) ==
  /\ pc = "range"
  /\ k \in hleft
  /\ header' = MapPut(header, CanonicalKey(k), hmap[k])
  /\ hleft' = hleft \ {k}
  /\ UNCHANGED << pc, url, body, resp, maxBytes, limitedN, buf, perr, feed,
                  thumbnails, err, result, http, scan, pos, log, sent, hcfg, hmap,
                  runs, sockVars, extVars >>

\* the request leaves with its headers; the server answers 200 with body and
\* Convert returns the response built from it
SendRequest ==
  /\ pc = "range"
  /\ hleft = {}
  /\ LET p == FeedParse(body)
         r == ConvertResult(NoErr, [set |-> p.ok, items |-> p.items],
                            extractItemThumbnails(SubSeq(body, 1, p.need)))
     IN  /\ result' = r
         /\ runs' = Append(runs, [header |-> header, result |-> r])
  /\ sent' = Append(sent, MethodGet)
  /\ pc' = "sent"
  /\ UNCHANGED << url, body, resp, maxBytes, limitedN, buf, perr, feed, thumbnails,
                  err, http, scan, pos, log, hcfg, hmap, hleft, header, sockVars, extVars >>

\* the same url is converted again, with the same configuration and the same
\* upstream response
ConvertAgain ==
  /\ pc = "sent"
  /\ Len(runs) < MaxRuns
  /\ pc' = "build"
  /\ header' = NoMap
  /\ hmap' = NoMap
  /\ result' = EmptyResponse
  /\ sent' = <<>>
  /\ UNCHANGED << url, body, resp, maxBytes, limitedN, buf, perr, feed, thumbnails,
                  err, http, scan, pos, log, hcfg, hleft, runs, sockVars, extVars >>

NextHeaders ==
  \/ BuildRequest
  \/ \E k \in HeaderKeys : RangeStep(k)
  \/ SendRequest
  \/ ConvertAgain

SpecHeaders == InitHeaders /\ [][NextHeaders]_vars

(* ------------------------------ dialSocks5 ------------------------------ *)
\* longest domain name in a CONNECT reply's bound address
MaxBound == 2
\* bytes relayed from the target after the CONNECT reply
MaxRelay == 1

\* the protocol bytes dialSocks5 writes and tests
socksVersion == 5
methodNoAuth == 0
cmdConnect == 1
repSucceeded == 0
atypIPv4 == 1
atypDomain == 3
atypIPv6 == 4
ipv4Len == 4
ipv6Len == 16
portLen == 2
maxDomainLen == 255
minPort == 1
maxPort == 65535

\* bytes of the proxy's stream that dialSocks5 never looks at: the bound
\* address, the bound port, and what the target sends afterwards
AddrByte == 170
PortByte == 187
RelayByte == 204
\* reply bytes other than the expected ones: an older protocol version, "no
\* acceptable method", "general failure", an address type that does not exist
OtherVersion == 4
NoAcceptableMethod == 255
GeneralFailure == 1
OtherAtyp == 9

Fill(n, b) == [i \in 1 .. n |-> b]

\* targetAddr: an IPv4 literal, an IPv6 literal, an IPv4-mapped IPv6 literal
\* (::ffff:a.b.c.d) or a domain name of len bytes,
\* with a port; "nohostport" is text net.SplitHostPort rejects, a port of -1
\* text strconv.Atoi rejects
Targets ==
  { [kind |-> k, len |-> 0, port |-> 443] :
      k \in {"ip4", "ip6", "ip4in6", "nohostport"} }
  \cup { [kind |-> "domain", len |-> n, port |-> 443] :
           n \in {1, maxDomainLen, maxDomainLen + 1} }
  \cup { [kind |-> "domain", len |-> 1, port |-> q] :
           q \in {-1, minPort - 1, minPort, maxPort, maxPort + 1} }

\* BND.ADDR of a CONNECT reply
BoundAddr(atyp, d) ==
  CASE atyp = atypIPv4 -> Fill(ipv4Len, AddrByte)
    [] atyp = atypIPv6 -> Fill(ipv6Len, AddrByte)
    [] atyp = atypDomain -> << d >> \o Fill(d, AddrByte)
    [] OTHER -> << >>

\* the two replies of a proxy: VER METHOD, then VER REP RSV ATYP BND.ADDR BND.PORT
Replies(a) ==
  << a.v1, a.m, a.v2, a.rep, 0, a.atyp >> \o BoundAddr(a.atyp, a.d) \o Fill(portLen, PortByte)

\* the answers of a proxy that follows the protocol, and those that depart
\* from it in one byte
GoodAnswers ==
  { [v1 |-> socksVersion, m |-> methodNoAuth, v2 |-> socksVersion,
     rep |-> repSucceeded, atyp |-> t, d |-> 0] : t \in {atypIPv4, atypIPv6} }
  \cup { [v1 |-> socksVersion, m |-> methodNoAuth, v2 |-> socksVersion,
          rep |-> repSucceeded, atyp |-> atypDomain, d |-> n] : n \in 0 .. MaxBound }
OneOff(g) ==
  { [g EXCEPT !.v1 = OtherVersion], [g EXCEPT !.m = NoAcceptableMethod],
    [g EXCEPT !.v2 = OtherVersion], [g EXCEPT !.rep = GeneralFailure],
    [g EXCEPT !.atyp = OtherAtyp] }
Answers == GoodAnswers \cup UNION { OneOff(g) : g \in GoodAnswers }

\* a proxy: the bytes it sends before it stops (its replies, then bytes
\* relayed from the target, possibly cut short), whether it then closes the
\* connection or keeps it open, and where its replies end
Proxies ==
  UNION { { [stream |-> SubSeq(Replies(a) \o Fill(MaxRelay, RelayByte), 1, c),
             closes |-> cl, replyEnd |-> Len(Replies(a))] :
              c \in 0 .. Len(Replies(a)) + MaxRelay, cl \in BOOLEAN } : a \in Answers }

\* io.ReadFull(conn, n bytes): the bytes are there, or the proxy closed the
\* connection before sending them, or the call waits
CanRead(n) == rd + n <= Len(proxy.stream)
ReadFails(n) == ~CanRead(n) /\ proxy.closes
NextBytes(n) == SubSeq(proxy.stream, rd + 1, rd + n)

\* the method negotiation request
MethodRequest == [kind |-> "methods", bytes |-> << socksVersion, 1, methodNoAuth >>]

\* methodRejected testing the version byte of the reply instead
methodRejectedVersion(reply) == reply[1] # socksVersion

\* reply[1] != 0x00
methodRejected(reply) == reply[2] # methodNoAuth

\* connectRefused testing the reserved byte of the reply instead
connectRefusedRsv(hdr) == hdr[3] # 0

\* resp[1] != 0x00
connectRefused(hdr) == hdr[2] # repSucceeded

\* domainTooLong with the limit off by one
domainTooLongOff(n) == n > maxDomainLen + 1

\* len(hostBytes) > 255
domainTooLong(n) == n > maxDomainLen

\* the bytes of the host as net.ParseIP and To4/To16 or []byte(host) give them
HostByte == 104

\* addrBuf: an IPv4 literal, and an IPv6 literal that To4 converts (an
\* IPv4-mapped address), give type 0x01 and 4 bytes; any other IPv6 literal
\* type 0x04 and 16 bytes; any other host type 0x03, its length as one byte,
\* and its bytes
addrBuf(t) ==
  CASE t.kind \in {"ip4", "ip4in6"} -> << atypIPv4 >> \o Fill(ipv4Len, HostByte)
    [] t.kind = "ip6" -> << atypIPv6 >> \o Fill(ipv6Len, HostByte)
    [] OTHER -> << atypDomain, t.len % 256 >> \o Fill(t.len, HostByte)

\* ConnectRequest with the two port bytes in the other order
ConnectRequestLittleEndian(t) ==
  [kind |-> "connect",
   bytes |-> << socksVersion, cmdConnect, 0 >> \o addrBuf(t)
             \o << t.port % 256, (t.port \div 256) % 256 >>]

\* the CONNECT request for target t: 05 01 00, the address, then
\* byte(portNum>>8), byte(portNum)
ConnectRequest(t) ==
  [kind |-> "connect",
   bytes |-> << socksVersion, cmdConnect, 0 >> \o addrBuf(t)
             \o << (t.port \div 256) % 256, t.port % 256 >>]

InitSocks ==
  /\ pc = "dial"
  /\ url = <<>>
  /\ body = <<>>
  /\ resp = 0
  /\ maxBytes = 0
  /\ limitedN = 0
  /\ buf = <<>>
  /\ perr = FALSE
  /\ feed = NoFeed
  /\ thumbnails = <<>>
  /\ err = NoErr
  /\ result = EmptyResponse
  /\ http = NoHttp
  /\ scan = ScanInit
  /\ pos = 0
  /\ log = {}
  /\ sent = <<>>
  /\ HdrIdle
  /\ ExtIdle
  /\ target \in Targets
  /\ proxy \in Proxies
  /\ rd = 0
  /\ skip = 0
  /\ written = <<>>
  /\ conn = "none"
  /\ derr = "none"
  /\ expired = FALSE

convVars == << url, body, resp, maxBytes, limitedN, buf, perr, feed, thumbnails,
              err, result, http, scan, pos, log, sent >>

\* dialSocks5 returning its error with the connection left as it is
DialFailsLeaveOpen(cause) ==
  /\ conn' = conn
  /\ derr' = cause
  /\ pc' = "dialFailed"

\* dialSocks5 returns its error after closing the connection
DialFails(cause) ==
  /\ conn' = "closed"
  /\ derr' = cause
  /\ pc' = "dialFailed"

\* the caller's deadline passes, or the caller cancels
Expire ==
  /\ pc \notin {"dialed", "dialFailed"}
  /\ ~expired
  /\ expired' = TRUE
  /\ UNCHANGED << pc, convVars, hdrVars, extVars, target, proxy, rd, skip, written, conn, derr >>

\* dialer.DialContext(ctx, "tcp", proxyAddr): it fails once ctx is done
Dial(ok) ==
  /\ pc = "dial"
  /\ ok => ~expired
  /\ IF ok
     THEN /\ conn' = "open"
          /\ pc' = "negWrite"
          /\ UNCHANGED derr
     ELSE /\ derr' = "dial"
          /\ pc' = "dialFailed"
          /\ UNCHANGED conn
  /\ UNCHANGED << convVars, hdrVars, extVars, target, proxy, rd, skip, written, expired >>

\* conn.Write of the method negotiation
NegWrite(ok) ==
  /\ pc = "negWrite"
  /\ IF ok
     THEN /\ written' = Append(written, MethodRequest)
          /\ pc' = "negRead"
          /\ UNCHANGED << conn, derr >>
     ELSE /\ DialFails("method write")
          /\ UNCHANGED written
  /\ UNCHANGED << convVars, hdrVars, extVars, target, proxy, rd, skip, expired >>

\* io.ReadFull of the 2-byte method reply, and the test of the method
NegRead ==
  /\ pc = "negRead"
  /\ CanRead(2) \/ ReadFails(2)
  /\ IF ReadFails(2)
     THEN /\ rd' = Len(proxy.stream)
          /\ DialFails("method read")
     ELSE /\ rd' = rd + 2
          /\ IF methodRejected(NextBytes(2))
             THEN DialFails("method")
             ELSE /\ pc' = "target"
                  /\ UNCHANGED << conn, derr >>
  /\ UNCHANGED << convVars, hdrVars, extVars, target, proxy, skip, written, expired >>

\* net.SplitHostPort, strconv.Atoi with the port range, and the encoding of
\* the host, which refuses a domain name that is too long
TargetAddr ==
  /\ pc = "target"
  /\ IF target.kind = "nohostport" THEN DialFails("target address")
     ELSE IF target.port < minPort \/ target.port > maxPort THEN DialFails("target port")
     ELSE IF target.kind = "domain" /\ domainTooLong(target.len)
     THEN DialFails("domain too long")
     ELSE /\ pc' = "connWrite"
          /\ UNCHANGED << conn, derr >>
  /\ UNCHANGED << convVars, hdrVars, extVars, target, proxy, rd, skip, written, expired >>

\* conn.Write of the CONNECT request
ConnWrite(ok) ==
  /\ pc = "connWrite"
  /\ IF ok
     THEN /\ written' = Append(written, ConnectRequest(target))
          /\ pc' = "repRead"
          /\ UNCHANGED << conn, derr >>
     ELSE /\ DialFails("connect write")
          /\ UNCHANGED written
  /\ UNCHANGED << convVars, hdrVars, extVars, target, proxy, rd, skip, expired >>

\* io.ReadFull of the 4-byte reply header, the test of the reply code and
\* the switch on the address type
RepRead ==
  /\ pc = "repRead"
  /\ CanRead(4) \/ ReadFails(4)
  /\ IF ReadFails(4)
     THEN /\ rd' = Len(proxy.stream)
          /\ DialFails("connect read")
          /\ UNCHANGED skip
     ELSE /\ rd' = rd + 4
          /\ LET hdr == NextBytes(4)
             IN  IF connectRefused(hdr)
                 THEN DialFails("connect refused") /\ UNCHANGED skip
                 ELSE IF hdr[4] = atypIPv4
                 THEN skip' = ipv4Len /\ pc' = "skipRead" /\ UNCHANGED << conn, derr >>
                 ELSE IF hdr[4] = atypDomain
                 THEN pc' = "lenRead" /\ UNCHANGED << skip, conn, derr >>
                 ELSE IF hdr[4] = atypIPv6
                 THEN skip' = ipv6Len /\ pc' = "skipRead" /\ UNCHANGED << conn, derr >>
                 ELSE DialFails("address type") /\ UNCHANGED skip
  /\ UNCHANGED << convVars, hdrVars, extVars, target, proxy, written, expired >>

\* case 0x03: io.ReadFull of the length byte of the bound domain name
LenRead ==
  /\ pc = "lenRead"
  /\ CanRead(1) \/ ReadFails(1)
  /\ IF ReadFails(1)
     THEN /\ rd' = Len(proxy.stream)
          /\ DialFails("length read")
          /\ UNCHANGED skip
     ELSE /\ rd' = rd + 1
          /\ skip' = NextBytes(1)[1]
          /\ pc' = "skipRead"
          /\ UNCHANGED << conn, derr >>
  /\ UNCHANGED << convVars, hdrVars, extVars, target, proxy, written, expired >>

\* if skip > 0: io.ReadFull of skip+2 bytes, the bound address and port;
\* then the connection is returned
SkipRead ==
  /\ pc = "skipRead"
  /\ IF skip > 0
     THEN /\ CanRead(skip + portLen) \/ ReadFails(skip + portLen)
          /\ IF ReadFails(skip + portLen)
             THEN /\ rd' = Len(proxy.stream)
                  /\ DialFails("bound address read")
             ELSE /\ rd' = rd + skip + portLen
                  /\ pc' = "dialed"
                  /\ UNCHANGED << conn, derr >>
     ELSE /\ pc' = "dialed"
          /\ UNCHANGED << rd, conn, derr >>
  /\ UNCHANGED << convVars, hdrVars, extVars, target, proxy, skip, written, expired >>

NextSocks ==
  \/ Expire
  \/ \E ok \in BOOLEAN : Dial(ok)
  \/ \E ok \in BOOLEAN : NegWrite(ok)
  \/ NegRead
  \/ TargetAddr
  \/ \E ok \in BOOLEAN : ConnWrite(ok)
  \/ RepRead
  \/ LenRead
  \/ SkipRead

SpecSocks == InitSocks /\ [][NextSocks]_vars

(* ------------------------- newHTTPClientFromEnv ------------------------- *)
MaxDials == 2

\* the port dialSocks5 is given when RSS_PROXY names none
defaultSocksPort == "1080"

ProxySchemes == { "http", "https", "HTTPS", "socks5", "socks5h", "Socks5", "ftp" }
ProxyHosts == { "127.0.0.1", "proxy.local" }
ProxyPorts == { "", "1080", "8888" }

\* RSS_PROXY: unset, white space only, text url.Parse rejects, or a URL with
\* a scheme, a host and a port that may be missing
ProxySettings ==
  { [k |-> c, scheme |-> "", host |-> "", port |-> ""] : c \in {"unset", "blank", "bad"} }
  \cup { [k |-> "url", scheme |-> sc, host |-> h, port |-> q] :
           sc \in ProxySchemes, h \in ProxyHosts, q \in ProxyPorts }

\* the origins the transport is asked to reach
Origins == { "feeds.example:443", "other.example:80" }

\* strings.ToLower on a URL scheme
SchemeToLower(sc) ==
  CASE sc = "HTTPS" -> "https"
    [] sc = "Socks5" -> "socks5"
    [] OTHER -> sc

\* the transport newHTTPClientFromEnv starts from: Proxy is
\* http.ProxyFromEnvironment and DialContext a plain net.Dialer
DirectClient ==
  [proxy |-> "env", purl |-> NoSetting, dial |-> "direct", addr |-> << "", "" >>]

\* newHTTPClientFromEnv handing dialSocks5 the port of the setting as it is
newHTTPClientFromEnvKeepPort(raw) ==
  IF raw.k \in {"unset", "blank"} THEN DirectClient
  ELSE IF raw.k = "bad" THEN DirectClient
  ELSE CASE SchemeToLower(raw.scheme) \in {"http", "https"} ->
              [DirectClient EXCEPT !.proxy = "url", !.purl = raw]
         [] SchemeToLower(raw.scheme) \in {"socks5", "socks5h"} ->
              [DirectClient EXCEPT !.proxy = "none", !.dial = "socks5",
                                   !.addr = << raw.host, raw.port >>]
         [] OTHER -> DirectClient

\* newHTTPClientFromEnv: the trimmed setting empty, or rejected by url.Parse,
\* returns the transport unchanged; http and https set Proxy to the URL;
\* socks5 and socks5h clear Proxy and dial through dialSocks5 to u.Host, or
\* to u.Hostname() and port 1080 when u.Port() is empty; any other scheme
\* returns the transport unchanged
newHTTPClientFromEnv(raw) ==
  IF raw.k \in {"unset", "blank"} THEN DirectClient
  ELSE IF raw.k = "bad" THEN DirectClient
  ELSE CASE SchemeToLower(raw.scheme) \in {"http", "https"} ->
              [DirectClient EXCEPT !.proxy = "url", !.purl = raw]
         [] SchemeToLower(raw.scheme) \in {"socks5", "socks5h"} ->
              [DirectClient EXCEPT
                 !.proxy = "none", !.dial = "socks5",
                 !.addr = << raw.host,
                             IF raw.port = "" THEN defaultSocksPort ELSE raw.port >>]
         [] OTHER -> DirectClient

InitProxy ==
  /\ pc = "start"
  /\ url = <<>>
  /\ body = <<>>
  /\ resp = 0
  /\ maxBytes = 0
  /\ limitedN = 0
  /\ buf = <<>>
  /\ perr = FALSE
  /\ feed = NoFeed
  /\ thumbnails = <<>>
  /\ err = NoErr
  /\ result = EmptyResponse
  /\ http = NoHttp
  /\ scan = ScanInit
  /\ pos = 0
  /\ log = {}
  /\ sent = <<>>
  /\ HdrIdle
  /\ SockIdle
  /\ penv \in ProxySettings
  /\ client = NoClient
  /\ dials = <<>>
  /\ SrvIdle
  /\ ParIdle
  /\ respBody = "none"

\* var defaultHTTPClient httpDoer = newHTTPClientFromEnv()
NewClient ==
  /\ pc = "start"
  /\ client' = newHTTPClientFromEnv(penv)
  /\ pc' = "serving"
  /\ UNCHANGED << convVars, hdrVars, sockVars, penv, dials, srvVars, parVars, respBody >>

\* the transport opens a connection for a request to origin addr: through
\* tr.DialContext, which is dialSocks5(ctx, proxyAddr, addr) for a SOCKS5
\* setting and the net.Dialer otherwise, to the proxy tr.Proxy names if any
OutboundDial(addr) ==
  /\ pc = "serving"
  /\ Len(dials) < MaxDials
  /\ dials' = Append(dials,
       IF client.dial = "socks5"
       THEN [via |-> "dialSocks5", to |-> client.addr, for |-> addr]
       ELSE IF client.proxy = "url"
       THEN [via |-> "net.Dialer", to |-> << client.purl.host, client.purl.port >>,
             for |-> addr]
       ELSE [via |-> "net.Dialer", to |-> << "environment", "" >>, for |-> addr])
  /\ UNCHANGED << pc, convVars, hdrVars, sockVars, penv, client, srvVars, parVars, respBody >>

NextProxy ==
  \/ NewClient
  \/ \E addr \in Origins : OutboundDial(addr)

SpecProxy == InitProxy /\ [][NextProxy]_vars

(* ------------------- NewHandler: middleware, mux, handlers --------------- *)
\* strings.ToLower on one character of a header or key; the words Bearer,
\* bearer and Basic stand for their letters
CharToLower(c) ==
  CASE c = "K" -> "k"
    [] c = "Bearer" -> "bearer"
    [] c = "Basic" -> "basic"
    [] OTHER -> c

\* strings.ToLower
StrToLower(s) == [i \in DOMAIN s |-> CharToLower(s[i])]

\* Options.APIKey: unset, blank, or a key with or without white space around
Keys == { <<>>, << " " >>, << "K" >>, << "K", " " >> }

\* the Authorization header of a request, empty when the request has none
AuthHeaders ==
  { <<>>, << "K" >>,
    << "Bearer", " ", "K" >>, << "Bearer", " ", "k" >>, << "bearer", " ", "K" >>,
    << "Bearer", " ", "x" >>, << "Basic", " ", "K" >>,
    << " ", "Bearer", " ", "K", " " >> }

PathConvert == "/api/v1/rss2json"
PathHealth == "/health"
Paths == { PathConvert, PathHealth, "/" }

\* NewHandler: the auth middleware is installed when the trimmed key is not empty
AuthInstalled(key) == TrimSpace(key) # <<>>

\* withAPIKeyAuth: the lower-cased, trimmed header equals "bearer " followed
\* by the lower-cased, trimmed key
withAPIKeyAuth(key, auth) ==
  StrToLower(TrimSpace(auth)) = << "bearer", " " >> \o StrToLower(TrimSpace(key))

\* the payload HealthHandler writes
HealthPayload == [status |-> "ok", uptime |-> "seconds"]

ContentTypeText == "text/plain; charset=utf-8"

InitServer ==
  /\ pc = "listen"
  /\ url = <<>>
  /\ body = <<>>
  /\ resp = 0
  /\ maxBytes = 0
  /\ limitedN = 0
  /\ buf = <<>>
  /\ perr = FALSE
  /\ feed = NoFeed
  /\ thumbnails = <<>>
  /\ err = NoErr
  /\ result = EmptyResponse
  /\ http = NoHttp
  /\ scan = ScanInit
  /\ pos = 0
  /\ log = {}
  /\ sent = <<>>
  /\ HdrIdle
  /\ SockIdle
  /\ ProxyIdle
  /\ apiKey \in Keys
  /\ inreq = NoReq
  /\ routed = "none"
  /\ ParIdle
  /\ respBody = "none"

\* a request arrives at the handler NewHandler returned
Arrive(path, auth) ==
  /\ pc = "listen"
  /\ inreq' = [path |-> path, auth |-> auth]
  /\ pc' = "handler"
  /\ UNCHANGED << convVars, hdrVars, sockVars, proxyVars, apiKey, routed, parVars, respBody >>

\* the handler chain: withAPIKeyAuth when installed, then the mux
ServeAuth ==
  /\ pc = "handler"
  /\ IF AuthInstalled(apiKey) /\ ~withAPIKeyAuth(apiKey, inreq.auth)
     THEN /\ http' = writeJSON(StatusUnauthorized,
                       [status |-> "error", version |-> APIVersion, feed |-> FALSE,
                        items |-> <<>>, message |-> MsgUnauthorized])
          /\ pc' = "responded"
     ELSE /\ pc' = "mux"
          /\ UNCHANGED http
  /\ UNCHANGED << url, body, resp, maxBytes, limitedN, buf, perr, feed, thumbnails,
                  err, result, scan, pos, log, sent >>
  /\ UNCHANGED << hdrVars, sockVars, proxyVars, srvVars, parVars, respBody >>

\* HealthHandler
HealthHandler ==
  /\ http' = writeJSON(StatusOK, HealthPayload)
  /\ routed' = "HealthHandler"
  /\ pc' = "responded"

\* http.ServeMux: the two registered paths, and 404 for any other
ServeMux ==
  /\ pc = "mux"
  /\ CASE inreq.path = PathConvert ->
            /\ routed' = "ConvertHandler"
            /\ pc' = "idle"
            /\ UNCHANGED http
       [] inreq.path = PathHealth -> HealthHandler
       [] OTHER ->
            /\ http' = [code |-> StatusNotFound, ctype |-> ContentTypeText,
                        payload |-> EmptyResponse]
            /\ routed' = "NotFound"
            /\ pc' = "responded"
  /\ UNCHANGED << url, body, resp, maxBytes, limitedN, buf, perr, feed, thumbnails,
                  err, result, scan, pos, log, sent >>
  /\ UNCHANGED << hdrVars, sockVars, proxyVars, apiKey, inreq, parVars, respBody >>

NextServer ==
  \/ \E path \in Paths, auth \in AuthHeaders : Arrive(path, auth)
  \/ ServeAuth
  \/ ServeMux
  \/ \E u \in Urls : Request(u)
  \/ ConvertEnter
  \/ NewRequest
  \/ \E t \in BOOLEAN : DoError(t)
  \/ DoSend
  \/ \E tok \in Tokens : EmitShort(tok)
  \/ \E s \in Statuses : DoResponse(s)
  \/ StatusCheck
  \/ \E raw \in RawSettings, n \in 0 .. MaxBody : ReadParse(raw, n)
  \/ FetchReturn
  \/ ConvertReturn
  \/ Respond

SpecServer == InitServer /\ [][NextServer]_vars

(* -------------------- two Convert calls side by side -------------------- *)
Procs == { 1, 2 }

\* the thumbnail element of the feed call p fetches
ThumbOf(p) == IF p = 1 THEN Thumb(<<"a", " ">>, <<>>) ELSE Thumb(<<>>, <<" ", "b">>)

\* the documents the feed of call p can be: one item, an item cut short by
\* the end of the transfer, an item without and an entry with a thumbnail
ParDocs(p) ==
  { << Open("rss"), Open("item"), ThumbOf(p), Close("item"), Close("rss") >>,
    << Open("rss"), Open("item"), ThumbOf(p), Close("item") >>,
    << Open("rss"), Open("item"), Close("item"),
       Open("Entry"), ThumbOf(p), Close("Entry"), Close("rss") >> }

\* the locals of one fetchAndParse and of the Convert that called it
NewCall(b) ==
  [pc |-> "read", body |-> b, buf |-> <<>>, perr |-> FALSE, feed |-> NoFeed,
   scan |-> ScanInit, pos |-> 0, thumbnails |-> <<>>, err |-> NoErr,
   result |-> EmptyResponse]

\* one buffer for all calls, instead of one per call
bufOfShared(p) == 1

\* var buf bytes.Buffer: the buffer the tee of call p writes to is a local
\* of that call
bufOf(p) == p

InitPar ==
  /\ pc = "par"
  /\ url = <<>>
  /\ body = <<>>
  /\ resp = 0
  /\ maxBytes = 0
  /\ limitedN = 0
  /\ buf = <<>>
  /\ perr = FALSE
  /\ feed = NoFeed
  /\ thumbnails = <<>>
  /\ err = NoErr
  /\ result = EmptyResponse
  /\ http = NoHttp
  /\ scan = ScanInit
  /\ pos = 0
  /\ log = {}
  /\ sent = <<>>
  /\ HdrIdle
  /\ SockIdle
  /\ ProxyIdle
  /\ SrvIdle
  /\ respBody = "none"
  /\ \E b1 \in ParDocs(1), b2 \in ParDocs(2) :
       calls = [p \in Procs |-> NewCall(IF p = 1 THEN b1 ELSE b2)]

ParUnchanged ==
  UNCHANGED << pc, convVars, hdrVars, sockVars, proxyVars, srvVars, respBody >>

\* the parser of call p reads the next byte of its body through the tee
ParRead(p) ==
  /\ calls[p].pc = "read"
  /\ Len(calls[p].buf) < FeedParse(calls[p].body).need
  /\ calls' = [calls EXCEPT
       ![bufOf(p)].buf = Append(@, calls[p].body[Len(calls[p].buf) + 1])]
  /\ ParUnchanged

\* parser.Parse of call p returns
ParParsed(p) ==
  /\ calls[p].pc = "read"
  /\ Len(calls[p].buf) >= FeedParse(calls[p].body).need
  /\ LET r == FeedParse(calls[p].body)
     IN  calls' = [calls EXCEPT
           ![p].perr = ~r.ok,
           ![p].err = IF r.ok THEN NoErr ELSE newUpstreamErr("parse", FALSE, 0),
           ![p].feed = IF r.ok THEN [set |-> TRUE, items |-> r.items] ELSE NoFeed,
           ![p].pc = IF r.ok THEN "scan" ELSE "fetched"]
  /\ ParUnchanged

\* extractItemThumbnails of call p: one iteration of the token loop, or its end
ParScan(p) ==
  /\ calls[p].pc = "scan"
  /\ LET c == calls[p]
         b == calls[bufOf(p)].buf
     IN  IF c.pos < Len(b) /\ b[c.pos + 1].k # "bad"
         THEN calls' = [calls EXCEPT ![p].scan = ScanTok(c.scan, b[c.pos + 1]),
                                      ![p].pos = c.pos + 1]
         ELSE calls' = [calls EXCEPT ![p].thumbnails = c.scan.thumbnails,
                                      ![p].pc = "fetched"]
  /\ ParUnchanged

\* Convert of call p returns
ParReturn(p) ==
  /\ calls[p].pc = "fetched"
  /\ calls' = [calls EXCEPT
       ![p].result = ConvertResult(calls[p].err, calls[p].feed, calls[p].thumbnails),
       ![p].pc = "done"]
  /\ ParUnchanged

NextPar ==
  \E p \in Procs : ParRead(p) \/ ParParsed(p) \/ ParScan(p) \/ ParReturn(p)

SpecPar == InitPar /\ [][NextPar]_vars

(* ------------- documents the strict decoder does not accept ------------- *)
\* d with the text Bad put in after its first i tokens
Dirty(d, i) == SubSeq(d, 1, i) \o << Bad >> \o SubSeq(d, i + 1, Len(d))

\* well-formed documents, and one the transfer cut short
BaseDocs ==
  { << Open("rss"), Open("item"), Thumb(<<"a", " ">>, <<>>), Close("item"),
       Open("Item"), Thumb(<<>>, <<" ", "b">>), Close("Item"), Close("rss") >>,
    << Open("rss"), Open("item"), Thumb(<<"a", " ">>, <<>>), Close("item") >>,
    << Open("rss"), Close("rss"), Ws >> }

\* the same documents with Bad at any one place after the root's start tag
DirtyDocs ==
  BaseDocs \cup UNION { { Dirty(d, i) : i \in 1 .. Len(d) } : d \in BaseDocs }

InitDirty ==
  /\ pc = "read"
  /\ url = <<"h">>
  /\ body \in DirtyDocs
  /\ resp = StatusOK
  /\ maxBytes = 0
  /\ limitedN = 0
  /\ buf = <<>>
  /\ perr = FALSE
  /\ feed = NoFeed
  /\ thumbnails = <<>>
  /\ err = NoErr
  /\ result = EmptyResponse
  /\ http = NoHttp
  /\ scan = ScanInit
  /\ pos = 0
  /\ log = {}
  /\ sent = << MethodGet >>
  /\ HdrIdle
  /\ SockIdle
  /\ ProxyIdle
  /\ SrvIdle
  /\ ParIdle
  /\ respBody = "open"

NextDirty ==
  \/ \E raw \in RawSettings, n \in 0 .. MaxBody + 1 : ReadParse(raw, n)
  \/ FetchReturn
  \/ ConvertReturn
  \/ Respond

SpecDirty == InitDirty /\ [][NextDirty]_vars

(* ------------------ every value of the size-ceiling setting ------------- *)
InitCeiling ==
  /\ pc = "read"
  /\ url = <<"h">>
  /\ body \in DirtyDocs
  /\ resp = StatusOK
  /\ maxBytes = 0
  /\ limitedN = 0
  /\ buf = <<>>
  /\ perr = FALSE
  /\ feed = NoFeed
  /\ thumbnails = <<>>
  /\ err = NoErr
  /\ result = EmptyResponse
  /\ http = NoHttp
  /\ scan = ScanInit
  /\ pos = 0
  /\ log = {}
  /\ sent = << MethodGet >>
  /\ HdrIdle
  /\ SockIdle
  /\ ProxyIdle
  /\ SrvIdle
  /\ ParIdle
  /\ respBody = "open"

NextCeiling ==
  \/ \E raw \in WideSettings, n \in 0 .. MaxBody + 1 : ReadParse(raw, n)
  \/ FetchReturn
  \/ ConvertReturn
  \/ Respond

SpecCeiling == InitCeiling /\ [][NextCeiling]_vars

(* --------------- what a dial and a fetch leave open behind them ---------- *)
\* a dial through the proxy, or a conversion from the handler on
InitClose == InitSocks \/ Init

NextClose ==
  \/ NextSocks
  \/ \E u \in Urls : Request(u)
  \/ ConvertEnter
  \/ NewRequest
  \/ \E t \in BOOLEAN : DoError(t)
  \/ DoSend
  \/ \E tok \in Tokens : EmitShort(tok)
  \/ \E s \in Statuses : DoResponse(s)
  \/ StatusCheck
  \/ \E raw \in RawSettings, n \in 0 .. MaxBody : ReadParse(raw, n)
  \/ FetchReturn
  \/ ConvertReturn
  \/ Respond

SpecClose == InitClose /\ [][NextClose]_vars

(* ------------------------------ properties ------------------------------ *)
Returned == pc \in {"converted", "responded"}
Succeeded == Returned /\ err = NoErr
IsBlank(u) == TrimSpace(u) = <<>>

\* C1: for every url that is empty or holds only whitespace, Convert fails
\* with kind InvalidInput, never with kind Upstream and never succeeds,
\* whatever the installed client does.
C1_BlankUrlIsInvalidInput ==
  (Returned /\ IsBlank(url)) => err.kind = ErrorKindInvalidInput

\* C2: a response whose status is outside [200,300) makes fetchAndParse return
\* an Upstream error carrying that status code, with no byte of the body read,
\* no feed parsed and no thumbnail scanned; Convert returns that error.
C2_StatusStep ==
  (pc = "status" /\ (resp < 200 \/ resp >= 300))
    => /\ pc' = "fetched"
       /\ err' = [kind |-> ErrorKindUpstream, cause |-> "status",
                  timeout |-> FALSE, code |-> resp]
       /\ buf' = <<>> /\ feed' = NoFeed /\ thumbnails' = <<>>
C2_StatusKept ==
  (err.cause = "status")
    => /\ err.kind = ErrorKindUpstream
       /\ (err.code < 200 \/ err.code >= 300)
       /\ buf = <<>> /\ feed = NoFeed /\ thumbnails = <<>>
       /\ pc \in {"fetched", "converted", "responded"}
C2_Non2xxIsUpstream == []C2_StatusKept /\ [][C2_StatusStep]_vars
C2_Witness ==
  /\ pc = "converted"
  /\ err.cause = "status" /\ err.code = 300
  /\ Len(body) > 0

\* C3: for every ceiling N, a body longer than N bytes makes the fetch fail
\* with the Upstream error that reports the size limit, and a body of N bytes
\* or fewer is never refused for its size.
C3_Step ==
  (pc = "parsed" /\ pc' = "fetched")
    => /\ (Len(body) > maxBytes
             => err' = [kind |-> ErrorKindUpstream, cause |-> "size limit",
                        timeout |-> FALSE, code |-> maxBytes])
       /\ (Len(body) <= maxBytes => err'.cause # "size limit")
C4_ErrorKinds ==
  (err # NoErr)
    => /\ err.kind \in {ErrorKindInvalidInput, ErrorKindUpstream}
       /\ (err.kind = ErrorKindInvalidInput <=> (url = <<>> \/ ~RequestBuilds(url)))
       /\ (err.kind = ErrorKindInvalidInput
             => err.cause \in {"missing url", "new request"})
       /\ (err.kind = ErrorKindUpstream
             => err.cause \in {"download", "status", "size limit", "parse"})
C4_Witness ==
  /\ pc = "converted"
  /\ err.kind = ErrorKindUpstream /\ err.cause = "parse"

\* C5: whenever Convert returns an error the response next to it is the empty
\* one: no status, no feed, no entries, at whatever step the failure occurred.
C5_NoPartialResult ==
  (pc \in {"fetched", "converted", "responded"} /\ err # NoErr)
    => /\ feed = NoFeed /\ thumbnails = <<>>
       /\ result.status = "" /\ ~result.feed /\ result.items = <<>>
       /\ result = EmptyResponse
\* the size limit was hit while parsing: bytes had been read and buffered
C5_Witness ==
  /\ pc = "converted"
  /\ err.cause = "size limit"
  /\ Len(body) >= 2
  /\ result = EmptyResponse

\* C6: ConvertHandler answers success with 200, an InvalidInput error with 400
\* and "Missing rss url.", an Upstream error caused by a timeout with 504, any
\* other error with 502 and the download message; InvalidInput is tested first.
C6_StatusMapping ==
  /\ (pc = "responded")
       => /\ (err = NoErr <=> http.code = StatusOK)
          /\ (err.kind = ErrorKindInvalidInput
                => http.code = StatusBadRequest /\ http.payload.message = MsgMissing)
          /\ (err.kind = ErrorKindUpstream /\ err.timeout
                => http.code = StatusGatewayTimeout)
          /\ (err.kind = ErrorKindUpstream /\ ~err.timeout
                => http.code = StatusBadGateway /\ http.payload.message = MsgDownload)
  /\ \A t \in BOOLEAN :
       mapError([kind |-> ErrorKindInvalidInput, cause |-> "new request",
                 timeout |-> t, code |-> 0]).code = StatusBadRequest
C6_Witness ==
  /\ pc = "responded"
  /\ err.kind = ErrorKindUpstream /\ err.timeout
  /\ http.code = StatusGatewayTimeout

\* C7: the message of a failure is a function of the error kind alone: two
\* failed conversions with the same kind are answered with the same message.
C7_MessageByKindOnly ==
  \A a \in log, b \in log : a.kind = b.kind => a.message = b.message

\* C7 as amended: the message is a function of the kind and of whether the
\* cause is a timeout: two failures of the same kind, both timeouts or both
\* not, are answered with the same message whatever their causes.
C7_MessageByKindAndTimeout ==
  \A a \in log, b \in log :
    (a.kind = b.kind /\ a.timeout = b.timeout) => a.message = b.message
C7_Witness ==
  \E a \in log, b \in log :
    /\ a.kind = ErrorKindUpstream /\ b.kind = ErrorKindUpstream
    /\ ~a.timeout /\ ~b.timeout
    /\ a.cause = "status" /\ b.cause = "parse"
    /\ a.message = b.message

\* a well-formed feed of k items, each holding one thumbnail element and
\* nothing else
FlatFeed(b, k) ==
  /\ Len(b) >= 3 * k + 2
  /\ b[1] = Open("rss")
  /\ \A j \in 1 .. k :
       /\ b[3 * j - 1] = Open("item")
       /\ b[3 * j].k = "thumb"
       /\ b[3 * j + 1] = Close("item")
  /\ b[3 * k + 2] = Close("rss")

\* C8: for a well-formed feed of k items with one thumbnail element each, a
\* successful conversion returns k entries, and entry i carries the trimmed
\* value of the thumbnail element of item i, in document order.
C8_OneThumbnailPerItem ==
  \A k \in 0 .. MaxBody :
    (Succeeded /\ FlatFeed(body, k))
      => /\ Len(result.items) = k
         /\ \A j \in 1 .. k :
              /\ result.items[j].entry = 3 * j - 1
              /\ result.items[j].thumbnail = TrimSpace(ThumbValue(body[3 * j]))
C8_Witness ==
  /\ Succeeded /\ FlatFeed(body, 2)
  /\ Len(result.items) = 2
  /\ result.items[1].thumbnail = <<"b">>
  /\ result.items[2].thumbnail = <<"a">>

\* the last start tag among the first n tokens of b, 0 when there is none
RECURSIVE LastOpen(_, _)
LastOpen(b, n) ==
  IF n = 0 THEN 0 ELSE IF b[n].k = "open" THEN n ELSE LastOpen(b, n - 1)

\* the thumbnail elements met since the scanner entered the current item
ThumbsSince(b, n) == { i \in LastOpen(b, n) + 1 .. n : b[i].k = "thumb" }
ValuedThumbsSince(b, n) ==
  { i \in ThumbsSince(b, n) : TrimSpace(ThumbValue(b[i])) # <<>> }
First(S) == CHOOSE i \in S : \A j \in S : i <= j

\* C9: inside an item holding two thumbnail elements the scanner keeps the
\* value of the first occurrence and ignores the second.
C9_FirstOccurrenceWins ==
  (pc = "scan" /\ scan.inItem /\ Cardinality(ThumbsSince(body, pos)) >= 2)
    => scan.current = TrimSpace(ThumbValue(body[First(ThumbsSince(body, pos))]))

\* C9 as amended: inside an item the scanner keeps the value of the first
\* thumbnail element whose trimmed value is not empty and ignores every later
\* one; a thumbnail with an empty value is not recorded.
C9_FirstValuedWins ==
  (pc = "scan" /\ scan.inItem)
    => IF ValuedThumbsSince(body, pos) = {}
       THEN scan.current = <<>>
       ELSE scan.current =
              TrimSpace(ThumbValue(body[First(ValuedThumbsSince(body, pos))]))
C9_Witness ==
  /\ pc = "scan" /\ scan.inItem
  /\ Cardinality(ValuedThumbsSince(body, pos)) = 2
  /\ body[pos] = Thumb(<<>>, <<" ", "b">>)
  /\ scan.current = <<"a">>

\* every item/entry element of b is an item that is a child of the channel
OnlyFeedItems(b) ==
  \A i \in 2 .. Len(b) :
    b[i].k = "open" => (b[i].name = "item" /\ Len(OpenStack(SubSeq(b, 1, i))) = 2)

\* C10: in every conversion the scanner recovers no more thumbnails than the
\* feed parser returned entries.
C10_ThumbnailsWithinEntries ==
  (pc \in {"fetched", "converted", "responded"} /\ err = NoErr)
    => Len(thumbnails) <= Len(feed.items)

\* C10 as amended: when every item/entry element of the document is an item
\* of the feed itself (a child of the channel, none nested, none foreign to
\* the feed type), the scanner recovers no more thumbnails than the parser
\* returned entries.
C10_ThumbnailsWithinFeedItems ==
  (pc \in {"fetched", "converted", "responded"} /\ err = NoErr /\ OnlyFeedItems(body))
    => Len(thumbnails) <= Len(feed.items)
C10_Witness ==
  /\ pc = "fetched" /\ err = NoErr /\ OnlyFeedItems(body)
  /\ Len(feed.items) = 2
  /\ Len(thumbnails) = 2

\* C11: on success the returned entries have the length and order of the
\* parsed entries; entry i carries the i-th scanned thumbnail when there is
\* one and the empty thumbnail otherwise; thumbnails beyond the last entry are
\* attached to nothing.
C11_PositionalPairing ==
  Succeeded
    => /\ Len(result.items) = Len(feed.items)
       /\ \A i \in 1 .. Len(feed.items) :
            /\ result.items[i].entry = feed.items[i]
            /\ (i <= Len(thumbnails) => result.items[i].thumbnail = thumbnails[i])
            /\ (i > Len(thumbnails) => result.items[i].thumbnail = <<>>)
       /\ http.payload \in {EmptyResponse, result}
C11_Witness ==
  /\ Succeeded
  /\ Len(feed.items) = 3 /\ thumbnails = << <<"a">> >>
  /\ result.items[1].thumbnail = <<"a">>
  /\ result.items[3].thumbnail = <<>>

\* C14: a call of Convert hands at most one request to the client, a GET:
\* one when a request could be built from the url, none when the call fails
\* with InvalidInput; after a failure no further request is sent.
C14_Requests ==
  /\ Len(sent) <= 1
  /\ \A i \in 1 .. Len(sent) : sent[i] = "GET"
  /\ Returned => (Len(sent) = 1 <=> err.kind # ErrorKindInvalidInput)
C14_NoRetry == err # NoErr => sent' = sent
C14_OneGetPerConvert == []C14_Requests /\ [][C14_NoRetry]_vars
C14_Witness ==
  /\ pc = "converted"
  /\ err.cause = "size limit"
  /\ sent = << "GET" >>

\* C12: converting the same input twice, with the same configuration and the
\* same upstream response, gives the same output and sends the same request
\* headers both times.
C12_SameInputSameOutput ==
  \A i \in DOMAIN runs, j \in DOMAIN runs :
    /\ runs[i].result = runs[j].result
    /\ runs[i].header = runs[j].header

\* the parts of cfg that set the header named n, compared without case
PartsFor(cfg, n) ==
  { i \in DOMAIN cfg : cfg[i].eq /\ cfg[i].key # "" /\ CanonicalKey(cfg[i].key) = n }
Last(S) == CHOOSE i \in S : \A j \in S : j <= i

\* C13: of several configured entries for one header name, compared without
\* case, the request carries the value of the last in configuration order; a
\* configured User-Agent replaces the default one.
C13_LastEntryWins ==
  (pc = "sent")
    => /\ \A n \in { CanonicalKey(k) : k \in HeaderKeys } :
            PartsFor(hcfg, n) # {}
              => /\ n \in DOMAIN header
                 /\ header[n] = hcfg[Last(PartsFor(hcfg, n))].val
       /\ PartsFor(hcfg, "User-Agent") = {} => header["User-Agent"] = DefaultUserAgent

\* dialSocks5 has returned
DialReturned == pc \in {"dialed", "dialFailed"}
\* the bytes of the proxy's two replies, where the proxy sent them
MethodReplied == Len(proxy.stream) >= 2
ConnectReplied == Len(proxy.stream) >= 6
ConnectSent == \E i \in DOMAIN written : written[i].kind = "connect"

\* C15: when the proxy selects method 0x00 and answers CONNECT with reply
\* code 0x00, dialSocks5 returns the connection only once the whole reply is
\* consumed (header, bound address of every type and length, port), so that
\* the caller's first byte is the first byte relayed from the target.
C15_WholeReplyConsumed ==
  (/\ pc = "dialed"
   /\ Len(proxy.stream) >= proxy.replyEnd
   /\ proxy.stream[1] = 5 /\ proxy.stream[2] = 0
   /\ proxy.stream[3] = 5 /\ proxy.stream[4] = 0)
    => /\ conn = "open"
       /\ rd = proxy.replyEnd

\* C16: a CONNECT reply whose reply code is not 0x00 makes dialSocks5 return
\* an error and no connection, with no byte read after the 4-byte header.
C16_RefusedConnectFails ==
  (DialReturned /\ rd >= 6 /\ proxy.stream[4] # 0)
    => /\ pc = "dialFailed"
       /\ derr = "connect refused"
       /\ conn = "closed"
       /\ rd = 6
C16_Witness ==
  /\ pc = "dialFailed"
  /\ derr = "connect refused"
  /\ proxy.stream[4] = 1
  /\ Len(proxy.stream) > 6
  /\ rd = 6

\* a read is waiting for bytes the proxy does not send on a connection it
\* keeps open
ReadSize ==
  CASE pc = "negRead" -> 2
    [] pc = "repRead" -> 4
    [] pc = "lenRead" -> 1
    [] pc = "skipRead" /\ skip > 0 -> skip + portLen
    [] OTHER -> 0
Blocked == ReadSize > 0 /\ ~CanRead(ReadSize) /\ ~proxy.closes

\* C17: dialSocks5 returns no later than the caller's deadline at every step
\* of the handshake: once the deadline has passed it is never left waiting
\* for a reply the proxy does not send.
C17_ReturnsByDeadline == expired => ~Blocked

\* C18: for a target whose host is a domain name longer than 255 bytes,
\* dialSocks5 fails and writes no CONNECT request to the connection.
C18_LongDomainNeverSent ==
  (target.kind = "domain" /\ target.len > 255)
    => /\ ~ConnectSent
       /\ pc # "dialed"
       /\ pc \notin {"connWrite", "repRead", "lenRead", "skipRead"}
C18_Witness ==
  /\ pc = "dialFailed"
  /\ derr = "domain too long"
  /\ target.len = 256
  /\ written = << MethodRequest >>
  /\ conn = "closed"

\* C19: the CONNECT request is written only after the method negotiation
\* 0x05 0x01 0x00 was written and a 2-byte reply selecting method 0x00 was
\* read; when the proxy selects another method the dial fails and no CONNECT
\* request is sent.
C19_ConnectAfterNegotiation ==
  /\ ConnectSent
       => /\ Len(written) = 2
          /\ written[1].kind = "methods" /\ written[1].bytes = << 5, 1, 0 >>
          /\ written[2].kind = "connect"
          /\ rd >= 2
          /\ proxy.stream[2] = 0
  /\ (DialReturned /\ rd >= 2 /\ proxy.stream[2] # 0)
       => pc = "dialFailed" /\ derr = "method" /\ ~ConnectSent /\ rd = 2
C19_Witness ==
  /\ ConnectSent
  /\ pc = "repRead"
  /\ proxy.stream[1] = 5 /\ proxy.stream[2] = 0

\* C20: dialSocks5 succeeds only if both replies carry version 0x05, the
\* selected method is 0x00, the reply code is 0x00 and the address type is
\* 0x01, 0x03 or 0x04; any other reply is fatal.
C20_OnlyExpectedReplies ==
  (pc = "dialed")
    => /\ proxy.stream[1] = 5 /\ proxy.stream[2] = 0
       /\ proxy.stream[3] = 5 /\ proxy.stream[4] = 0
       /\ proxy.stream[6] \in {1, 3, 4}

\* the address of the CONNECT request as the claim C21 gives it
AddrByLiteral(t) ==
  CASE t.kind = "ip4" -> << 1 >> \o Fill(4, HostByte)
    [] t.kind \in {"ip6", "ip4in6"} -> << 4 >> \o Fill(16, HostByte)
    [] OTHER -> << 3, t.len >> \o Fill(t.len, HostByte)
\* the same, an IPv4-mapped IPv6 literal being sent as the IPv4 address
AddrByTo4(t) ==
  CASE t.kind \in {"ip4", "ip4in6"} -> << 1 >> \o Fill(4, HostByte)
    [] t.kind = "ip6" -> << 4 >> \o Fill(16, HostByte)
    [] OTHER -> << 3, t.len >> \o Fill(t.len, HostByte)
PortBigEndian(q) == << q \div 256, q % 256 >>

\* C21: the CONNECT request is 05 01 00, then type 0x01 + 4 bytes for an IPv4
\* literal, type 0x04 + 16 bytes for an IPv6 literal, type 0x03 + length byte
\* + name bytes for any other host, then the port as 2 bytes big-endian; a
\* port outside 1..65535 is refused before the request is sent.
C21_ConnectEncoding ==
  /\ \A i \in DOMAIN written :
       written[i].kind = "connect"
         => /\ target.port \in 1 .. 65535
            /\ written[i].bytes =
                 << 5, 1, 0 >> \o AddrByLiteral(target) \o PortBigEndian(target.port)
  /\ target.port \notin 1 .. 65535 => ~ConnectSent /\ pc # "dialed"

\* C21 as amended: an IPv6 literal that is an IPv4-mapped address is sent as
\* type 0x01 with its 4 IPv4 bytes; every other case as stated.
C21_ConnectEncodingTo4 ==
  /\ \A i \in DOMAIN written :
       written[i].kind = "connect"
         => /\ target.port \in 1 .. 65535
            /\ written[i].bytes =
                 << 5, 1, 0 >> \o AddrByTo4(target) \o PortBigEndian(target.port)
  /\ target.port \notin 1 .. 65535 => ~ConnectSent /\ pc # "dialed"
C21_Witness ==
  /\ pc = "repRead"
  /\ target = [kind |-> "domain", len |-> 1, port |-> 443]
  /\ written[2].bytes = << 5, 1, 0, 3, 1, HostByte, 1, 187 >>

\* RSS_PROXY has the scheme sc, in any letter case
HasScheme(sc) ==
  /\ penv.k = "url"
  /\ \/ penv.scheme = sc
     \/ sc = "https" /\ penv.scheme = "HTTPS"
     \/ sc = "socks5" /\ penv.scheme = "Socks5"
ProxyIsHttp == HasScheme("http") \/ HasScheme("https")
ProxyIsSocks == HasScheme("socks5") \/ HasScheme("socks5h")

\* C22: the client follows from the proxy setting alone: no setting, an
\* unparsable setting or an unknown scheme gives a direct client with the
\* environment's proxy rules, and the client is always built; http/https
\* gives a client proxying through that URL; socks5/socks5h gives a client
\* with no HTTP proxy whose every dial goes through dialSocks5 to the proxy
\* host, on port 1080 when the setting names no port.
C22_ClientFromSetting ==
  pc = "serving" =>
    /\ client # NoClient
    /\ ~ProxyIsHttp /\ ~ProxyIsSocks
         => /\ client.proxy = "env" /\ client.dial = "direct"
            /\ \A i \in DOMAIN dials : dials[i].via = "net.Dialer"
    /\ ProxyIsHttp
         => /\ client.proxy = "url" /\ client.purl = penv /\ client.dial = "direct"
            /\ \A i \in DOMAIN dials : dials[i].to = << penv.host, penv.port >>
    /\ ProxyIsSocks
         => /\ client.proxy = "none"
            /\ \A i \in DOMAIN dials :
                 /\ dials[i].via = "dialSocks5"
                 /\ dials[i].to =
                      << penv.host, IF penv.port = "" THEN "1080" ELSE penv.port >>
C22_Witness ==
  /\ pc = "serving"
  /\ penv = [k |-> "url", scheme |-> "Socks5", host |-> "proxy.local", port |-> ""]
  /\ Len(dials) = 2
  /\ dials[2].to = << "proxy.local", "1080" >>

\* the request went past the auth middleware
ReachedRouter == pc = "mux" \/ routed # "none"
Served == pc \notin {"listen", "handler"}
\* the header is Bearer (in either letter case) and the configured key
CarriesKey ==
  TrimSpace(inreq.auth) \in { << "Bearer", " " >> \o TrimSpace(apiKey),
                              << "bearer", " " >> \o TrimSpace(apiKey) }

\* C23: with an API key configured a request reaches the router only if its
\* Authorization header is "Bearer <API_KEY>" with the configured key; every
\* other request is answered 401, reaches no handler and sends nothing
\* upstream.  Without a key every request reaches the router.
C23_OnlyTheKeyPasses ==
  Served =>
    IF TrimSpace(apiKey) = <<>> \/ CarriesKey
    THEN ReachedRouter
    ELSE /\ ~ReachedRouter
         /\ sent = <<>>
         /\ pc = "responded" /\ http.code = 401

\* C26: every response of ConvertHandler, HealthHandler and the auth
\* middleware has Content-Type application/json; charset=utf-8; a response of
\* ConvertHandler has status "ok" exactly when its HTTP status is 200 and
\* "error" otherwise; every error response carries version v1 and a message,
\* and neither feed nor items.
C26_JsonResponses ==
  pc = "responded" /\ routed # "NotFound" =>
    /\ http.ctype = "application/json; charset=utf-8"
    /\ routed = "ConvertHandler"
         => /\ http.payload.status = "ok" <=> http.code = 200
            /\ http.code # 200 => http.payload.status = "error"
    /\ routed # "HealthHandler" /\ http.code # 200
         => /\ http.payload.version = "v1"
            /\ http.payload.message # ""
            /\ http.payload.feed = FALSE
            /\ http.payload.items = <<>>
C26_Witness ==
  /\ pc = "responded"
  /\ routed = "ConvertHandler"
  /\ http.code = 502
  /\ http.payload.status = "error"

\* what Convert returns for the document b when it runs alone
ConvertAlone(b) ==
  LET r == FeedParse(b)
  IN  IF ~r.ok THEN EmptyResponse
      ELSE ConvertResult(NoErr, [set |-> TRUE, items |-> r.items],
                         extractItemThumbnails(SubSeq(b, 1, r.need)))
\* the thumbnail values of the items of a response
ThumbnailsIn(r) == { r.items[i].thumbnail : i \in DOMAIN r.items }
Other(p) == IF p = 1 THEN 2 ELSE 1

\* C24: in every interleaving of two Convert calls on different feeds, each
\* call's buffer holds bytes of its own body only, its scanner state is the
\* one of a scan of its own buffer, its result is the one it returns when run
\* alone, and no thumbnail of the other feed is in it.
C24_NoInterference ==
  \A p \in DOMAIN calls :
    LET c == calls[p] IN
    /\ c.buf = SubSeq(c.body, 1, Len(c.buf))
    /\ c.scan = ScanState(c.buf, c.pos)
    /\ c.pc = "done"
         => /\ c.result = ConvertAlone(c.body)
            /\ TrimSpace(ThumbValue(ThumbOf(Other(p)))) \notin ThumbnailsIn(c.result)
C24_Witness ==
  /\ calls # <<>>
  /\ \A p \in Procs : calls[p].pc = "done" /\ calls[p].result.status = "ok"
  /\ calls[1].result.items # calls[2].result.items

\* the document without the text the strict decoder refuses
RECURSIVE WellFormed(_)
WellFormed(b) ==
  IF b = <<>> THEN <<>>
  ELSE IF Head(b).k = "bad" THEN WellFormed(Tail(b))
  ELSE << Head(b) >> \o WellFormed(Tail(b))
IsPrefix(a, b) == Len(a) <= Len(b) /\ a = SubSeq(b, 1, Len(a))
\* the thumbnails of the items closed in the first n tokens of b
RECURSIVE ClosedItems(_, _)
ClosedItems(b, n) ==
  IF n = 0 THEN ScanInit ELSE ScanTok(ClosedItems(b, n - 1), b[n])
HasBad(b) == \E i \in DOMAIN b : b[i].k = "bad"
FirstBad(b) == CHOOSE i \in DOMAIN b : b[i].k = "bad" /\ \A j \in 1 .. i - 1 : b[j].k # "bad"

\* C25: the scanner never fails a conversion: fetchAndParse fails exactly when
\* the parser failed or the size limit was met, whatever the scanner met; on
\* malformed XML the scanner returns the thumbnails of the items closed
\* before that point, a prefix of what it returns for the well-formed
\* document.
C25_ScannerNeverFails ==
  [][pc = "parsed" /\ pc' = "fetched"
       => /\ err' = NoErr <=> ~perr /\ ~(maxBytes > 0 /\ limitedN = 0)
          /\ err' = NoErr
               => /\ IsPrefix(thumbnails', extractItemThumbnails(WellFormed(body)))
                  /\ HasBad(buf)
                       => thumbnails' = ClosedItems(buf, FirstBad(buf) - 1).thumbnails]_vars
C25_Witness ==
  /\ pc = "responded"
  /\ http.code = 200
  /\ HasBad(body)
  /\ Len(http.payload.items) = 2
  /\ http.payload.items[1].thumbnail = <<"a">>
  /\ http.payload.items[2].thumbnail = <<>>

\* the token the step of the scanner handles
ScanStepped == pc = "scan" /\ pos' = pos + 1
LeavesItem(tok) == tok.k = "close" /\ ToLower(tok.name) \in {"item", "entry"}
\* an item or entry element is open after the tokens of s
InsideItem(s) ==
  \E i \in DOMAIN OpenStack(s) : ToLower(OpenStack(s)[i]) \in {"item", "entry"}

\* C27: the scanner appends exactly one string each time it leaves an item or
\* entry element, for every nesting of such elements, and nothing on any
\* other token; a thumbnail element outside any item or entry changes nothing.
C27_OnePerItemEnd ==
  [][ScanStepped
       => LET tok == body[pos + 1] IN
          /\ LeavesItem(tok) => Len(scan'.thumbnails) = Len(scan.thumbnails) + 1
          /\ ~LeavesItem(tok) => scan'.thumbnails = scan.thumbnails
          /\ tok.k = "thumb" /\ ~InsideItem(SubSeq(body, 1, pos)) => scan' = scan]_vars

\* C27 as amended: one string is appended at an item or entry end tag when no
\* other such end tag came since the last item or entry start tag (inItem is
\* set), and nothing at any other end tag or token.
C27_OnePerItemEndWhileInItem ==
  [][ScanStepped
       => LET tok == body[pos + 1] IN
          /\ LeavesItem(tok) /\ scan.inItem
               => Len(scan'.thumbnails) = Len(scan.thumbnails) + 1
          /\ ~(LeavesItem(tok) /\ scan.inItem) => scan'.thumbnails = scan.thumbnails
          /\ tok.k = "thumb" /\ ~InsideItem(SubSeq(body, 1, pos)) => scan' = scan]_vars
C27_Witness ==
  /\ pc = "scanned"
  /\ body = << Open("rss"), Thumb(<<"a", " ">>, <<>>), Open("item"), Open("item"),
               Close("item"), Close("item"), Close("rss") >>
  /\ thumbnails = << <<>> >>

\* fetchAndParse is about to hand buf to the scanner
WillScan == pc = "parsed" /\ ~perr /\ ~(maxBytes > 0 /\ limitedN = 0)

C29_LimitAboveCeiling ==
  pc = "parsed" =>
    /\ maxBytes > 0
    /\ limitedN + Len(buf) > maxBytes
    /\ Len(body) <= maxBytes => Len(buf) >= FeedParse(body).need

\* C30: once the connection to the proxy is open, every failing outcome of
\* dialSocks5 closes it before returning and only success returns it open;
\* once the client returned a response, its body is closed on every path out
\* of fetchAndParse.
C30_NothingLeftOpen ==
  /\ pc = "dialFailed" => conn # "open"
  /\ pc = "dialFailed" /\ derr # "dial" => conn = "closed"
  /\ pc = "dialed" => conn = "open" /\ derr = "none"
  /\ pc \in {"fetched", "converted", "responded"} => respBody # "open"
  /\ respBody = "open" => pc \in {"status", "read", "parsed"}
C30_Witness ==
  /\ pc = "dialFailed"
  /\ derr = "address type"
  /\ conn = "closed"
  /\ Len(written) = 2

====
